---- MODULE Spec2Model ----
(***************************************************************************)
(* Recurring schedule entries of the school portal (src/core).             *)
(*                                                                         *)
(* The store is the ScheduleEntry table.  Every request handler of         *)
(* src/core/views.py that writes it is translated into a plan: the         *)
(* sequence of row writes the handler issues, in the order of the code.    *)
(* Spec runs a whole handler as one action; SpecTx runs the same plan one  *)
(* write at a time inside transaction.atomic().                            *)
(*                                                                         *)
(* Dates are day ordinals (date + timedelta(days = n) is integer           *)
(* addition), times are integers ordered like datetime.time.  The foreign  *)
(* keys classroom, subject, course and group are assigned by exactly the   *)
(* statements that assign teacher and are carried by the teacher field.    *)
(***************************************************************************)
EXTENDS Integers, Sequences, FiniteSets, TLC

(* ------------------------------ bounds --------------------------------- *)

MaxOps == 3
MaxTxOps == 2
MaxIds == 3
MaxDate == 1
MaxTime == 2
NumUsers == 2
NumAdmins == 1
NumTeachers == 1
MaxInterval == 2
MaxOcc == 3
MaxFormOps == 2
MaxReads == 1
MaxShown == 2

Users == 1..NumUsers
Admins == 1..NumAdmins
Teachers == 1..NumTeachers
Dates == 0..MaxDate
Times == 0..MaxTime
Intervals == 0..MaxInterval
Occurrences == 1..MaxOcc
Ids == 1..MaxIds
Scopes == {"single", "series"}
Conns == {1, 2}
Notes == {<<>>, <<" ", "x">>}

(* SQL NULL / Python None of the nullable recurrence columns; in a form, a *)
(* field that was left out.                                                *)
NULL == 0 - 1

(* A form field whose text strptime or int cannot parse. *)
MALFORMED == 0 - 2

(* A primary key no row of the looked-up table carries. *)
UnknownId == NumUsers + 1

VARIABLES
    entries,    \* committed ScheduleEntry rows: id -> row
    nextId,     \* next value of the auto-increment primary key
    nextGroup,  \* stands for the next value uuid4() returns
    pre,        \* history: the committed rows before the last request
    last,       \* history: the last request and its outcome
    ops,        \* number of requests handled
    tx,         \* rows and key sequence as seen inside the open transaction
    plan,       \* writes the open transaction still has to issue
    pc,         \* "idle" or "running" (a transaction is open)
    conn,       \* the database connections of requests served at the same time
    response,   \* what the last read request (calendar, export) returned
    accounts,   \* auth_user rows with their groups: id -> row
    catalog,    \* Classroom, Subject, Course and ClassGroup rows: table -> id -> row
    invites,    \* InviteCode rows: code -> row
    signups,    \* the signup each connection is serving
    issued      \* history: the uses every invite code was created with

vars ==
    <<entries, nextId, nextGroup, pre, last, ops, tx, plan, pc, conn, response,
      accounts, catalog, invites, signups, issued>>

(* --------------------------- rows and requests ------------------------- *)

(* A submitted form. The interval and the count are read only when the *)
(* is_recurring box is ticked.                                          *)
AllRequests ==
    [teacher : Teachers, date : Dates, start_time : Times, end_time : Times,
     is_recurring : {TRUE}, interval_days : Intervals, occurrences : Occurrences]
    \cup
    [teacher : Teachers, date : Dates, start_time : Times, end_time : Times,
     is_recurring : {FALSE}, interval_days : {NULL}, occurrences : {NULL}]

(* The forms as they are posted: any field may be left out or unparsable and *)
(* the selected teacher may not exist.  A field that is well-formed takes one *)
(* value here; AllRequests varies the well-formed values.                     *)
AllForms ==
    [teacher : {1, NULL, UnknownId}, date : {0, NULL, MALFORMED},
     start_time : {0, NULL, MALFORMED}, end_time : {1, NULL, MALFORMED},
     is_recurring : {TRUE}, interval_days : {1, NULL, MALFORMED},
     occurrences : {2, NULL, MALFORMED}]
    \cup
    [teacher : {1, NULL, UnknownId}, date : {0, NULL, MALFORMED},
     start_time : {0, NULL, MALFORMED}, end_time : {1, NULL, MALFORMED},
     is_recurring : {FALSE}, interval_days : {NULL}, occurrences : {NULL}]
    \cup AllRequests

NoReq ==
    [teacher |-> NULL, date |-> NULL, start_time |-> NULL, end_time |-> NULL,
     is_recurring |-> FALSE, interval_days |-> NULL, occurrences |-> NULL]

NoRows == [i \in {} |-> NoReq]

(* QuerySet.filter(recurrence_group = g) *)
SeriesIds(rows, g) == {i \in DOMAIN rows : rows[i].recurrence_group = g}

(* order_by("date", "start_time", "id") *)
LessDateStartId(rows, a, b) ==
    \/ rows[a].date < rows[b].date
    \/ /\ rows[a].date = rows[b].date
       /\ rows[a].start_time < rows[b].start_time
    \/ /\ rows[a].date = rows[b].date
       /\ rows[a].start_time = rows[b].start_time
       /\ a < b

RECURSIVE OrderByDate(_, _)
OrderByDate(rows, S) ==
    IF S = {} THEN <<>>
    ELSE LET m == CHOOSE x \in S : \A y \in S \ {x} : LessDateStartId(rows, x, y)
         IN  <<m>> \o OrderByDate(rows, S \ {m})

(* order_by("recurrence_index", "date", "start_time", "id") *)
LessIndexDateStartId(rows, a, b) ==
    \/ rows[a].recurrence_index < rows[b].recurrence_index
    \/ /\ rows[a].recurrence_index = rows[b].recurrence_index
       /\ LessDateStartId(rows, a, b)

RECURSIVE OrderByIndex(_, _)
OrderByIndex(rows, S) ==
    IF S = {} THEN <<>>
    ELSE LET m == CHOOSE x \in S : \A y \in S \ {x} : LessIndexDateStartId(rows, x, y)
         IN  <<m>> \o OrderByIndex(rows, S \ {m})

(* ------------------------------ row writes ----------------------------- *)

(* Model.objects.create(...): INSERT with the next primary key *)
CreateStep(row) ==
    [op |-> "create", id |-> NULL, ids |-> {}, row |-> row, group |-> NULL, fields |-> {}]

(* instance.save(): UPDATE of every column, INSERT when the row is gone *)
SaveStep(id, row) ==
    [op |-> "save", id |-> id, ids |-> {}, row |-> row, group |-> NULL, fields |-> {}]

(* instance.save(update_fields = fields) *)
UpdateStep(id, row, fields) ==
    [op |-> "update", id |-> id, ids |-> {}, row |-> row, group |-> NULL, fields |-> fields]

(* instance.delete() / QuerySet.delete(): one DELETE statement *)
DeleteStep(S) ==
    [op |-> "delete", id |-> NULL, ids |-> S, row |-> NoReq, group |-> NULL, fields |-> {}]

(* a call of ScheduleEntry.update_recurrence_metadata(g) *)
ReindexStep(g) ==
    [op |-> "reindex", id |-> NULL, ids |-> {}, row |-> NoReq, group |-> g, fields |-> {}]

Put(rows, id, row) == [i \in DOMAIN rows \cup {id} |-> IF i = id THEN row ELSE rows[i]]

Remove(rows, S) == [i \in DOMAIN rows \ S |-> rows[i]]

(* One INSERT, UPDATE or DELETE on the table. d = [rows, seq]. *)
ApplyStep(d, s) ==
    CASE s.op = "create" ->
            [rows |-> Put(d.rows, d.seq, s.row), seq |-> d.seq + 1]
      [] s.op = "save" ->
            [d EXCEPT !.rows = Put(d.rows, s.id, s.row)]
      [] s.op = "update" ->
            [d EXCEPT !.rows[s.id] =
                [f \in DOMAIN s.row |-> IF f \in s.fields THEN s.row[f] ELSE @[f]]]
      [] s.op = "delete" ->
            [d EXCEPT !.rows = Remove(d.rows, s.ids)]

(* Variant: every member is saved, changed or not. *)
ReindexWritesAlways(rows, g) ==
    IF g = NULL THEN <<>>
    ELSE LET ord == OrderByDate(rows, SeriesIds(rows, g))
             total == Len(ord)
             write(k) ==
                 UpdateStep(ord[k],
                            [rows[ord[k]] EXCEPT !.recurrence_index = k,
                                                 !.recurrence_total_occurrences = total],
                            {"recurrence_index", "recurrence_total_occurrences"})
         IN  [k \in 1..total |-> write(k)]

(* ScheduleEntry.update_recurrence_metadata: the writes it issues. *)
ReindexWrites(rows, g) ==
    IF g = NULL THEN <<>>
    ELSE LET ord == OrderByDate(rows, SeriesIds(rows, g))
             total == Len(ord)
             changed(k) ==
                 (IF rows[ord[k]].recurrence_index # k
                     THEN {"recurrence_index"} ELSE {})
                 \cup
                 (IF rows[ord[k]].recurrence_total_occurrences # total
                     THEN {"recurrence_total_occurrences"} ELSE {})
             write(k) ==
                 UpdateStep(ord[k],
                            [rows[ord[k]] EXCEPT !.recurrence_index = k,
                                                 !.recurrence_total_occurrences = total],
                            changed(k))
         IN  IF total = 0 THEN <<>>
             ELSE SelectSeq([k \in 1..total |-> write(k)], LAMBDA s : s.fields # {})

(* The writes of a handler applied in order; a reindex reads the rows as the *)
(* preceding writes left them.                                               *)
RECURSIVE RunPlan(_, _)
RunPlan(d, p) ==
    IF p = <<>> THEN d
    ELSE IF Head(p).op = "reindex"
         THEN RunPlan(d, ReindexWrites(d.rows, Head(p).group) \o Tail(p))
         ELSE RunPlan(ApplyStep(d, Head(p)), Tail(p))

Reindex(rows, g) == RunPlan([rows |-> rows, seq |-> 0], <<ReindexStep(g)>>).rows

NumCreates(p) == Len(SelectSeq(p, LAMBDA s : s.op = "create"))

(* ------------------------------ handlers ------------------------------- *)

(* ScheduleEntry.objects.create(...) / ScheduleEntry(...) *)
NewRow(teacher, date, start_time, end_time, created_by, g, interval_days, total, index) ==
    [teacher |-> teacher, date |-> date, start_time |-> start_time,
     end_time |-> end_time, created_by |-> created_by,
     recurrence_group |-> g, recurrence_interval_days |-> interval_days,
     recurrence_total_occurrences |-> total, recurrence_index |-> index,
     private_note |-> <<>>]

(* datetime.strptime(value, "%Y-%m-%d").date() if value else None, with None *)
(* also where the except clause catches the parse error                      *)
ParseDate(value) == IF value \in {NULL, MALFORMED} THEN NULL ELSE value

(* parse_time: None for a missing and for an unparsable value *)
ParseTime(value) == IF value \in {NULL, MALFORMED} THEN NULL ELSE value

(* int(value) if value is not None else None, None on ValueError *)
ParseInt(value) == IF value \in {NULL, MALFORMED} THEN NULL ELSE value

(* not all([teacher_id, ..., date_value, start_time_value, end_time_value]) *)
FieldMissing(req) ==
    NULL \in {req.teacher, req.date, req.start_time, req.end_time}

(* Variant: the recurrence fields of the form are not checked. *)
HasErrorsNoRecurrenceCheck(req) ==
    \/ FieldMissing(req)
    \/ req.date = MALFORMED
    \/ ParseTime(req.start_time) = NULL
    \/ ParseTime(req.end_time) = NULL
    \/ /\ ParseTime(req.start_time) # NULL /\ ParseTime(req.end_time) # NULL
       /\ ParseTime(req.start_time) >= ParseTime(req.end_time)

(* Variant: an entry may end at the minute it starts. *)
HasErrorsEndAtStart(req) ==
    \/ FieldMissing(req)
    \/ req.date = MALFORMED
    \/ ParseTime(req.start_time) = NULL
    \/ ParseTime(req.end_time) = NULL
    \/ /\ ParseTime(req.start_time) # NULL /\ ParseTime(req.end_time) # NULL
       /\ ParseTime(req.start_time) > ParseTime(req.end_time)
    \/ /\ req.is_recurring
       /\ \/ ParseInt(req.interval_days) = NULL \/ ParseInt(req.interval_days) <= 0
          \/ ParseInt(req.occurrences) = NULL \/ ParseInt(req.occurrences) < 2

(* The form checks shared by create_schedule_entry and edit_schedule_entry: *)
(* TRUE when the errors list is not empty.                                  *)
HasErrors(req) ==
    \/ FieldMissing(req)
    \/ req.date = MALFORMED
    \/ ParseTime(req.start_time) = NULL
    \/ ParseTime(req.end_time) = NULL
    \/ /\ ParseTime(req.start_time) # NULL /\ ParseTime(req.end_time) # NULL
       /\ ParseTime(req.start_time) >= ParseTime(req.end_time)
    \/ /\ req.is_recurring
       /\ \/ ParseInt(req.interval_days) = NULL \/ ParseInt(req.interval_days) <= 0
          \/ ParseInt(req.occurrences) = NULL \/ ParseInt(req.occurrences) < 2

(* User.objects.get(id = teacher_id) ... ClassGroup.objects.get(id = group_id) *)
(* raises DoesNotExist.                                                        *)
LookupFails(req) == req.teacher \notin Users

(* The assignments entry.teacher = teacher ... entry.end_time = end_time. *)
WithFields(row, req, date) ==
    [row EXCEPT !.teacher = req.teacher, !.date = date,
                !.start_time = req.start_time, !.end_time = req.end_time]

(* Variant: the position is left in place when recurrence is cleared. *)
WithoutRecurrenceKeepsIndex(row) ==
    [row EXCEPT !.recurrence_group = NULL, !.recurrence_interval_days = NULL,
                !.recurrence_total_occurrences = NULL]

(* The assignments of None to the four recurrence attributes. *)
WithoutRecurrence(row) ==
    [row EXCEPT !.recurrence_group = NULL, !.recurrence_interval_days = NULL,
                !.recurrence_total_occurrences = NULL, !.recurrence_index = NULL]

(* Variant: the first occurrence is dated one interval after the template. *)
PlanCreateShifted(user, req, g) ==
    IF req.is_recurring /\ req.interval_days # 0 /\ req.occurrences # 0
    THEN [k \in 1..req.occurrences |->
             CreateStep(NewRow(req.teacher, req.date + req.interval_days * k,
                               req.start_time, req.end_time, user,
                               g, req.interval_days, req.occurrences, k))]
         \o <<ReindexStep(g)>>
    ELSE <<CreateStep(NewRow(req.teacher, req.date, req.start_time, req.end_time,
                             user, NULL, NULL, NULL, NULL))>>

(* create_schedule_entry, the body of the atomic block; g is uuid4(). *)
PlanCreate(user, req, g) ==
    IF req.is_recurring /\ req.interval_days # 0 /\ req.occurrences # 0
    THEN [k \in 1..req.occurrences |->
             CreateStep(NewRow(req.teacher, req.date + req.interval_days * (k - 1),
                               req.start_time, req.end_time, user,
                               g, req.interval_days, req.occurrences, k))]
         \o <<ReindexStep(g)>>
    ELSE <<CreateStep(NewRow(req.teacher, req.date, req.start_time, req.end_time,
                             user, NULL, NULL, NULL, NULL))>>

(* recurrence_count of edit_schedule_entry and delete_schedule_entry *)
RecurrenceCount(rows, id) ==
    IF rows[id].recurrence_group # NULL
    THEN Cardinality(SeriesIds(rows, rows[id].recurrence_group))
    ELSE 1

ApplyToSeries(rows, id, scope) ==
    scope = "series" /\ rows[id].recurrence_group # NULL /\ RecurrenceCount(rows, id) > 1

(* Variant: the new occurrences are anchored on the date the entry had. *)
PlanEditMakeSeriesOldAnchor(rows, user, id, req, g) ==
    <<SaveStep(id, [WithFields(rows[id], req, req.date) EXCEPT
                       !.recurrence_group = g,
                       !.recurrence_interval_days = req.interval_days,
                       !.recurrence_total_occurrences = req.occurrences,
                       !.recurrence_index = 1])>>
    \o [k \in 1..(req.occurrences - 1) |->
           CreateStep(NewRow(req.teacher, rows[id].date + req.interval_days * k,
                             req.start_time, req.end_time, user,
                             g, req.interval_days, req.occurrences, k + 1))]
    \o <<ReindexStep(g)>>

(* edit_schedule_entry: standalone entry, recurrence requested; g is uuid4(). *)
PlanEditMakeSeries(rows, user, id, req, g) ==
    <<SaveStep(id, [WithFields(rows[id], req, req.date) EXCEPT
                       !.recurrence_group = g,
                       !.recurrence_interval_days = req.interval_days,
                       !.recurrence_total_occurrences = req.occurrences,
                       !.recurrence_index = 1])>>
    \o [k \in 1..(req.occurrences - 1) |->
           CreateStep(NewRow(req.teacher, req.date + req.interval_days * k,
                             req.start_time, req.end_time, user,
                             g, req.interval_days, req.occurrences, k + 1))]
    \o <<ReindexStep(g)>>

(* Variant: every member is put on the submitted date. *)
PlanEditDissolveSeriesOneDate(rows, id, req) ==
    LET existing_group == rows[id].recurrence_group
        series_entries == OrderByDate(rows, SeriesIds(rows, existing_group))
    IN  [k \in 1..Len(series_entries) |->
            SaveStep(series_entries[k],
                     WithoutRecurrence(WithFields(rows[series_entries[k]], req, req.date)))]

(* edit_schedule_entry: recurring entry, recurrence switched off, whole series. *)
PlanEditDissolveSeries(rows, id, req) ==
    LET existing_group == rows[id].recurrence_group
        series_entries == OrderByDate(rows, SeriesIds(rows, existing_group))
        date_delta == req.date - rows[id].date
    IN  [k \in 1..Len(series_entries) |->
            SaveStep(series_entries[k],
                     WithoutRecurrence(
                         WithFields(rows[series_entries[k]], req,
                                    rows[series_entries[k]].date + date_delta)))]

(* Variant: the series left behind is not reindexed. *)
PlanEditDetachSingleNoReindex(rows, id, req) ==
    <<SaveStep(id, WithoutRecurrence(WithFields(rows[id], req, req.date)))>>

(* edit_schedule_entry: recurring entry, recurrence switched off, this entry. *)
PlanEditDetachSingle(rows, id, req) ==
    <<SaveStep(id, WithoutRecurrence(WithFields(rows[id], req, req.date)))>>
    \o (IF rows[id].recurrence_group # NULL
        THEN <<ReindexStep(rows[id].recurrence_group)>> ELSE <<>>)

(* Variant: the rank is read without the reindex that precedes it. *)
PlanEditSeriesStaleRank(rows, user, id, req) ==
    LET existing_group == rows[id].recurrence_group
        series_entries == OrderByIndex(rows, SeriesIds(rows, existing_group))
        current_index == IF rows[id].recurrence_index \in {NULL, 0}
                         THEN 1 ELSE rows[id].recurrence_index
        new_series_start == req.date - req.interval_days * (current_index - 1)
        target_date(offset) == new_series_start + req.interval_days * offset
        upsert(index) ==
            IF index < Len(series_entries)
            THEN SaveStep(series_entries[index + 1],
                          [WithFields(rows[series_entries[index + 1]], req,
                                      target_date(index)) EXCEPT
                              !.recurrence_interval_days = req.interval_days,
                              !.recurrence_total_occurrences = req.occurrences,
                              !.recurrence_index = index + 1])
            ELSE CreateStep(NewRow(req.teacher, target_date(index),
                                   req.start_time, req.end_time, user,
                                   existing_group, req.interval_days,
                                   req.occurrences, index + 1))
    IN  [k \in 1..req.occurrences |-> upsert(k - 1)]
        \o (IF Len(series_entries) > req.occurrences
            THEN [k \in 1..(Len(series_entries) - req.occurrences) |->
                     DeleteStep({series_entries[req.occurrences + k]})]
            ELSE <<>>)
        \o <<ReindexStep(existing_group)>>

(* edit_schedule_entry: recurring entry stays recurring, whole series. *)
PlanEditSeries(rows, user, id, req) ==
    LET existing_group == rows[id].recurrence_group
        fresh == Reindex(rows, existing_group)
        series_entries == OrderByIndex(fresh, SeriesIds(fresh, existing_group))
        current_index == IF fresh[id].recurrence_index \in {NULL, 0}
                         THEN 1 ELSE fresh[id].recurrence_index
        new_series_start == req.date - req.interval_days * (current_index - 1)
        target_date(offset) == new_series_start + req.interval_days * offset
        upsert(index) ==
            IF index < Len(series_entries)
            THEN SaveStep(series_entries[index + 1],
                          [WithFields(fresh[series_entries[index + 1]], req,
                                      target_date(index)) EXCEPT
                              !.recurrence_interval_days = req.interval_days,
                              !.recurrence_total_occurrences = req.occurrences,
                              !.recurrence_index = index + 1])
            ELSE CreateStep(NewRow(req.teacher, target_date(index),
                                   req.start_time, req.end_time, user,
                                   existing_group, req.interval_days,
                                   req.occurrences, index + 1))
    IN  <<ReindexStep(existing_group)>>
        \o [k \in 1..req.occurrences |-> upsert(k - 1)]
        \o (IF Len(series_entries) > req.occurrences
            THEN [k \in 1..(Len(series_entries) - req.occurrences) |->
                     DeleteStep({series_entries[req.occurrences + k]})]
            ELSE <<>>)
        \o <<ReindexStep(existing_group)>>

(* Variant: the edited entry leaves its series. *)
PlanEditSingleDetaches(rows, id, req) ==
    <<SaveStep(id, WithoutRecurrence(WithFields(rows[id], req, req.date)))>>
    \o (IF rows[id].recurrence_group # NULL
        THEN <<ReindexStep(rows[id].recurrence_group)>> ELSE <<>>)

(* Variant: the series is not reindexed after the entry moved. *)
PlanEditSingleNoReindex(rows, id, req) ==
    <<SaveStep(id, WithFields(rows[id], req, req.date))>>

(* edit_schedule_entry: recurring entry stays recurring, this entry only. *)
PlanEditSingle(rows, id, req) ==
    <<SaveStep(id, WithFields(rows[id], req, req.date))>>
    \o (IF rows[id].recurrence_group # NULL
        THEN <<ReindexStep(rows[id].recurrence_group)>> ELSE <<>>)

(* edit_schedule_entry, the body of the atomic block. *)
PlanEdit(rows, user, id, scope, req, g) ==
    LET existing_is_recurring == rows[id].recurrence_group # NULL
    IN  IF ~existing_is_recurring /\ ~req.is_recurring
        THEN <<SaveStep(id, WithFields(rows[id], req, req.date))>>
        ELSE IF ~existing_is_recurring /\ req.is_recurring
        THEN PlanEditMakeSeries(rows, user, id, req, g)
        ELSE IF existing_is_recurring /\ ~req.is_recurring
        THEN IF ApplyToSeries(rows, id, scope)
             THEN PlanEditDissolveSeries(rows, id, req)
             ELSE PlanEditDetachSingle(rows, id, req)
        ELSE IF ApplyToSeries(rows, id, scope)
             THEN PlanEditSeries(rows, user, id, req)
             ELSE PlanEditSingle(rows, id, req)

(* delete_schedule_entry: delete_series *)
DeleteSeries(rows, id, scope) ==
    scope = "series" /\ rows[id].recurrence_group # NULL /\ RecurrenceCount(rows, id) > 1

(* Variant: the series left behind is not reindexed. *)
PlanDeleteNoReindex(rows, id, scope) ==
    IF DeleteSeries(rows, id, scope)
    THEN <<DeleteStep(SeriesIds(rows, rows[id].recurrence_group))>>
    ELSE <<DeleteStep({id})>>

(* Variant: scope series removes the chosen occurrence only. *)
PlanDeleteOnlyEntry(rows, id, scope) ==
    <<DeleteStep({id})>>
    \o (IF rows[id].recurrence_group # NULL
        THEN <<ReindexStep(rows[id].recurrence_group)>> ELSE <<>>)

(* delete_schedule_entry, the body of the atomic block. *)
PlanDelete(rows, id, scope) ==
    IF DeleteSeries(rows, id, scope)
    THEN <<DeleteStep(SeriesIds(rows, rows[id].recurrence_group))>>
    ELSE <<DeleteStep({id})>>
         \o (IF rows[id].recurrence_group # NULL
             THEN <<ReindexStep(rows[id].recurrence_group)>> ELSE <<>>)

(* ScheduleEntryManager.cleanup_past_entries: filter(date__lt = today) *)
PastDates(rows, today) == {i \in DOMAIN rows : rows[i].date < today}

(* Variant: an entry that ends at the current minute is removed too. *)
EndedTodayInclusive(rows, today, current_time) ==
    {i \in DOMAIN rows : rows[i].date = today /\ rows[i].end_time <= current_time}

(* ScheduleEntryManager.cleanup_past_entries: *)
(* filter(date = today, end_time__lt = current_time) *)
EndedToday(rows, today, current_time) ==
    {i \in DOMAIN rows : rows[i].date = today /\ rows[i].end_time < current_time}

(* Variant: the start is compared with the clock whatever the date. *)
GetStatusStartAnyDay(row, reference_date, reference_time) ==
    IF row.date > reference_date \/ row.start_time > reference_time
    THEN "upcoming"
    ELSE IF row.date < reference_date
            \/ (row.date = reference_date /\ row.end_time < reference_time)
    THEN "finished"
    ELSE "active"

(* Variant: an entry counts as finished from the minute it ends. *)
GetStatusFinishedAtEnd(row, reference_date, reference_time) ==
    IF row.date > reference_date
       \/ (row.date = reference_date /\ row.start_time > reference_time)
    THEN "upcoming"
    ELSE IF row.date < reference_date
            \/ (row.date = reference_date /\ row.end_time <= reference_time)
    THEN "finished"
    ELSE "active"

(* ScheduleEntry.get_status with both reference values given *)
GetStatus(row, reference_date, reference_time) ==
    IF row.date > reference_date
       \/ (row.date = reference_date /\ row.start_time > reference_time)
    THEN "upcoming"
    ELSE IF row.date < reference_date
            \/ (row.date = reference_date /\ row.end_time < reference_time)
    THEN "finished"
    ELSE "active"

(* str.strip() on the submitted note, a sequence of characters. *)
RECURSIVE LStrip(_)
LStrip(s) == IF s # <<>> /\ Head(s) = " " THEN LStrip(Tail(s)) ELSE s

RECURSIVE RStrip(_)
RStrip(s) ==
    IF s # <<>> /\ s[Len(s)] = " " THEN RStrip(SubSeq(s, 1, Len(s) - 1)) ELSE s

Strip(s) == RStrip(LStrip(s))

(* ------------------------- the requests as actions ---------------------- *)

(* No transaction is open and the bound on the number of requests allows one more. *)
Ready == pc = "idle" /\ ops < MaxOps

(* is_superuser or member of the admin group *)
IsAdmin(user) ==
    /\ user \in DOMAIN accounts
    /\ (accounts[user].is_superuser \/ "admin" \in accounts[user].groups)

Outcome(kind, user, id, scope, req, result, count) ==
    [kind |-> kind, user |-> user, id |-> id, scope |-> scope, req |-> req,
     result |-> result, count |-> count]

(* A connection outside a transaction. *)
NoConn ==
    [pc |-> "idle", kind |-> "none", id |-> NULL, group |-> NULL,
     plan |-> <<>>, written |-> NoRows, deleted |-> {}]

(* The date parameter of a query string that has none, and one that does *)
(* not parse as a date.                                                    *)
NoDate == [year |-> NULL, month |-> NULL, day |-> NULL]

BadDate == [year |-> MALFORMED, month |-> MALFORMED, day |-> MALFORMED]

(* No read request has been answered. *)
NoRequest ==
    [kind |-> "none", user |-> NULL, year |-> NULL, month |-> NULL,
     show_weekends |-> FALSE, teacher |-> NULL, date |-> NoDate,
     today |-> NoDate, current_time |-> NULL, token |-> <<>>]

NoResult ==
    [kind |-> "none", body |-> <<>>, token |-> <<>>, year |-> NULL, month |-> NULL,
     changed |-> FALSE]

(* History of a poll: the store as it was when the previous answer was *)
(* given, and that request and answer.                                  *)
NoIssue == [rows |-> NoRows, request |-> NoRequest, result |-> NoResult]

NoResponse ==
    [request |-> NoRequest, result |-> NoResult, rows |-> NoRows, issued |-> NoIssue]

(* The tables the schedule requests do not write: one account for every *)
(* user of Users, in the admin or the teacher group; no catalog rows, no *)
(* invite codes, no signup under way.                                    *)
Tables == {"classroom", "subject", "course", "group"}

Account(username, is_superuser, groups, invite) ==
    [username |-> username, is_superuser |-> is_superuser, groups |-> groups,
     invite |-> invite]

DefaultAccounts ==
    [u \in Users |->
        Account(u, FALSE, IF u \in Admins THEN {"admin"} ELSE {"teacher"}, NULL)]

NoSignup ==
    [pc |-> "idle", flow |-> "none", code |-> NULL, username |-> NULL,
     seen |-> [remaining_uses |-> 0, expiration |-> "none", creator |-> NULL],
     left |-> NULL]

InitSite ==
    /\ accounts = DefaultAccounts
    /\ catalog = [t \in Tables |-> NoRows]
    /\ invites = NoRows
    /\ signups = [p \in Conns |-> NoSignup]
    /\ issued = NoRows

Init ==
    /\ InitSite
    /\ response = NoResponse
    /\ conn = [p \in Conns |-> NoConn]
    /\ entries = NoRows
    /\ nextId = 1
    /\ nextGroup = 1
    /\ pre = NoRows
    /\ last = Outcome("none", NULL, NULL, "single", NoReq, "none", 0)
    /\ ops = 0
    /\ tx = [rows |-> NoRows, seq |-> 1]
    /\ plan = <<>>
    /\ pc = "idle"

(* The handler returned before any write. *)
Refuse(kind, result, req) ==
    /\ last' = Outcome(kind, NULL, NULL, "single", req, result, 0)
    /\ UNCHANGED <<entries, nextId, nextGroup>>

(* The atomic block ran to its end and committed its writes. *)
Commit(p) ==
    \E d \in {RunPlan([rows |-> entries, seq |-> nextId], p)} :
        /\ d.seq - 1 <= MaxIds
        /\ entries' = d.rows
        /\ nextId' = d.seq

(* uuid4() is called by the branches that start a new series. *)
CallsUuid4Create(req) == req.is_recurring /\ req.interval_days # 0 /\ req.occurrences # 0

CallsUuid4Edit(rows, id, req) == rows[id].recurrence_group = NULL /\ req.is_recurring

(* POST create_schedule_entry *)
CreateEntry(user, req) ==
    /\ Ready
    /\ ops' = ops + 1
    /\ pre' = entries
    /\ UNCHANGED <<tx, plan, pc, conn, response, accounts, catalog, invites, signups, issued>>
    /\ IF ~IsAdmin(user) THEN Refuse("create", "forbidden", NoReq)
       ELSE IF HasErrors(req) THEN Refuse("create", "invalid", req)
       ELSE IF LookupFails(req) THEN Refuse("create", "unknown", req)
       ELSE /\ Commit(PlanCreate(user, req, nextGroup))
            /\ nextGroup' = IF CallsUuid4Create(req) THEN nextGroup + 1 ELSE nextGroup
            /\ last' = Outcome("create", user, NULL, "single", req, "ok",
                               IF CallsUuid4Create(req) THEN req.occurrences ELSE 1)

(* POST edit_schedule_entry *)
EditEntry(user, id, scope, req) ==
    /\ Ready
    /\ ops' = ops + 1
    /\ pre' = entries
    /\ UNCHANGED <<tx, plan, pc, conn, response, accounts, catalog, invites, signups, issued>>
    /\ IF ~IsAdmin(user) THEN Refuse("edit", "forbidden", NoReq)
       ELSE IF id \notin DOMAIN entries THEN Refuse("edit", "not_found", NoReq)
       ELSE IF HasErrors(req) THEN Refuse("edit", "invalid", req)
       ELSE IF LookupFails(req) THEN Refuse("edit", "unknown", req)
       ELSE /\ Commit(PlanEdit(entries, user, id, scope, req, nextGroup))
            /\ nextGroup' = IF CallsUuid4Edit(entries, id, req)
                            THEN nextGroup + 1 ELSE nextGroup
            /\ last' = Outcome("edit", user, id, scope, req, "ok", 0)

(* POST delete_schedule_entry *)
DeleteEntry(user, id, scope) ==
    /\ Ready
    /\ ops' = ops + 1
    /\ pre' = entries
    /\ UNCHANGED <<tx, plan, pc, conn, response, accounts, catalog, invites, signups, issued>>
    /\ IF ~IsAdmin(user) THEN Refuse("delete", "forbidden", NoReq)
       ELSE IF id \notin DOMAIN entries THEN Refuse("delete", "not_found", NoReq)
       ELSE /\ Commit(PlanDelete(entries, id, scope))
            /\ UNCHANGED nextGroup
            /\ last' = Outcome("delete", user, id, scope, NoReq, "ok",
                               Cardinality(DOMAIN entries \ DOMAIN entries'))

(* Variant: the series that lost members are reindexed. *)
CleanupPastEntriesReindexes(today, current_time) ==
    /\ Ready
    /\ ops' = ops + 1
    /\ pre' = entries
    /\ UNCHANGED <<tx, plan, pc, conn, response, nextId, nextGroup, accounts, catalog, invites, signups, issued>>
    /\ LET first == PastDates(entries, today)
           remaining == Remove(entries, first)
           second == EndedToday(remaining, today, current_time)
           kept == Remove(remaining, second)
           groups == {entries[i].recurrence_group : i \in first \cup second} \ {NULL}
           reindexed == [i \in DOMAIN kept |->
                            IF kept[i].recurrence_group \in groups
                            THEN Reindex(kept, kept[i].recurrence_group)[i]
                            ELSE kept[i]]
       IN  /\ entries' = reindexed
           /\ last' = Outcome("cleanup", NULL, NULL, "single",
                              [NoReq EXCEPT !.date = today, !.end_time = current_time],
                              "ok", Cardinality(first) + Cardinality(second))

(* ScheduleEntry.objects.cleanup_past_entries() with the clock at (today, current_time) *)
CleanupPastEntries(today, current_time) ==
    /\ Ready
    /\ ops' = ops + 1
    /\ pre' = entries
    /\ UNCHANGED <<tx, plan, pc, conn, response, nextId, nextGroup, accounts, catalog, invites, signups, issued>>
    /\ LET first == PastDates(entries, today)
           remaining == Remove(entries, first)
           second == EndedToday(remaining, today, current_time)
       IN  /\ entries' = Remove(remaining, second)
           /\ last' = Outcome("cleanup", NULL, NULL, "single",
                              [NoReq EXCEPT !.date = today, !.end_time = current_time],
                              "ok", Cardinality(first) + Cardinality(second))

(* POST update_schedule_entry_note *)
UpdateNote(user, id, note) ==
    /\ Ready
    /\ ops' = ops + 1
    /\ pre' = entries
    /\ UNCHANGED <<tx, plan, pc, conn, response, accounts, catalog, invites, signups, issued>>
    /\ IF id \notin DOMAIN entries THEN Refuse("note", "not_found", NoReq)
       ELSE IF entries[id].teacher # user THEN Refuse("note", "forbidden", NoReq)
       ELSE /\ Commit(<<UpdateStep(id, [entries[id] EXCEPT !.private_note = Strip(note)],
                                {"private_note"})>>)
            /\ UNCHANGED nextGroup
            /\ last' = Outcome("note", user, id, "single", NoReq, "ok", 0)

(* A form the checks refuse and a form that selects a teacher who is gone. *)
InvalidForm ==
    [teacher |-> 1, date |-> 0, start_time |-> 1, end_time |-> 1,
     is_recurring |-> FALSE, interval_days |-> NULL, occurrences |-> NULL]

UnknownForm == [InvalidForm EXCEPT !.teacher = UnknownId, !.end_time = 2]

(* The forms the requests are drawn from: every well-formed form that passes *)
(* the checks and, since a refusal depends on nothing but the failed check,  *)
(* one form for each kind of refusal.  SpecForms draws from AllForms.        *)
Requests ==
    {r \in AllRequests : ~HasErrors(r)} \cup {InvalidForm, UnknownForm}

(* A handler reads the form only after the permission check and the lookup *)
(* of the entry, so a refused request is enumerated once.                   *)
FormsFor(user, id) ==
    IF IsAdmin(user) /\ (id = NULL \/ id \in DOMAIN entries) THEN Requests ELSE {NoReq}

Next ==
    \/ Ready /\ \E user \in Users : \E req \in FormsFor(user, NULL) : CreateEntry(user, req)
    \/ Ready /\ \E user \in Users, id \in Ids, scope \in Scopes :
           \E req \in FormsFor(user, id) : EditEntry(user, id, scope, req)
    \/ Ready /\ \E user \in Users, id \in Ids, scope \in Scopes : DeleteEntry(user, id, scope)
    \/ Ready /\ \E today \in Dates, current_time \in Times :
           CleanupPastEntries(today, current_time)
    \/ Ready /\ \E user \in Users, id \in Ids, note \in Notes : UpdateNote(user, id, note)

Spec == Init /\ [][Next]_vars

(* The requests of the recurrence engine alone: create, edit, delete. *)
NextRequests ==
    \/ Ready /\ \E user \in Users : \E req \in FormsFor(user, NULL) : CreateEntry(user, req)
    \/ Ready /\ \E user \in Users, id \in Ids, scope \in Scopes :
           \E req \in FormsFor(user, id) : EditEntry(user, id, scope, req)
    \/ Ready /\ \E user \in Users, id \in Ids, scope \in Scopes : DeleteEntry(user, id, scope)

SpecRequests == Init /\ [][NextRequests]_vars

(* Create and edit requests with forms as they are posted. *)
FormsPosted(user, id) ==
    IF IsAdmin(user) /\ (id = NULL \/ id \in DOMAIN entries) THEN AllForms ELSE {NoReq}

NextForms ==
    \/ Ready /\ ops < MaxFormOps /\
           \E user \in Users : \E req \in FormsPosted(user, NULL) : CreateEntry(user, req)
    \/ Ready /\ ops < MaxFormOps /\
           \E user \in Users, id \in Ids, scope \in Scopes :
               \E req \in FormsPosted(user, id) : EditEntry(user, id, scope, req)

SpecForms == Init /\ [][NextForms]_vars

(* ---------------- the atomic block, one write at a time ----------------- *)

(* Variant: no atomic block, every write is committed as it is issued. *)
RollbackNothing(committed, working) == working

(* with transaction.atomic(): an exception leaves the block and the writes *)
(* issued inside it are rolled back.                                        *)
Rollback(committed, working) == committed

(* The handler passed its checks and enters the atomic block with plan p. *)
Enter(kind, user, id, scope, req, p) ==
    /\ pc = "idle"
    /\ ops < MaxTxOps
    /\ nextId + NumCreates(p) - 1 <= MaxIds
    /\ ops' = ops + 1
    /\ pre' = entries
    /\ tx' = [rows |-> entries, seq |-> nextId]
    /\ plan' = p
    /\ pc' = "running"
    /\ last' = Outcome(kind, user, id, scope, req, "running", 0)
    /\ UNCHANGED <<entries, nextId, conn, response, accounts, catalog, invites, signups, issued>>

BeginCreate(user, req) ==
    /\ IsAdmin(user) /\ ~HasErrors(req) /\ ~LookupFails(req)
    /\ Enter("create", user, NULL, "single", req, PlanCreate(user, req, nextGroup))
    /\ nextGroup' = IF CallsUuid4Create(req) THEN nextGroup + 1 ELSE nextGroup

BeginEdit(user, id, scope, req) ==
    /\ IsAdmin(user) /\ id \in DOMAIN entries /\ ~HasErrors(req) /\ ~LookupFails(req)
    /\ Enter("edit", user, id, scope, req, PlanEdit(entries, user, id, scope, req, nextGroup))
    /\ nextGroup' = IF CallsUuid4Edit(entries, id, req) THEN nextGroup + 1 ELSE nextGroup

BeginDelete(user, id, scope) ==
    /\ IsAdmin(user) /\ id \in DOMAIN entries
    /\ Enter("delete", user, id, scope, NoReq, PlanDelete(entries, id, scope))
    /\ UNCHANGED nextGroup

(* The next statement of the block: a reindex reads the series and queues *)
(* its writes, any other step is one write.                               *)
TxWrite ==
    /\ pc = "running"
    /\ plan # <<>>
    /\ IF Head(plan).op = "reindex"
       THEN /\ plan' = ReindexWrites(tx.rows, Head(plan).group) \o Tail(plan)
            /\ UNCHANGED tx
       ELSE /\ tx' = ApplyStep(tx, Head(plan))
            /\ plan' = Tail(plan)
    /\ UNCHANGED <<entries, nextId, nextGroup, pre, last, ops, pc, conn, response, accounts, catalog, invites, signups, issued>>

(* The block ends normally: COMMIT. *)
TxCommit ==
    /\ pc = "running"
    /\ plan = <<>>
    /\ entries' = tx.rows
    /\ nextId' = tx.seq
    /\ pc' = "idle"
    /\ last' = [last EXCEPT !.result = "ok"]
    /\ UNCHANGED <<nextGroup, pre, ops, tx, plan, conn, response, accounts, catalog, invites, signups, issued>>

(* A statement of the block raises: ROLLBACK. tx keeps the discarded rows.  *)
(* Whether the key sequence is rolled back depends on the database engine.  *)
TxAbort ==
    /\ pc = "running"
    /\ entries' = Rollback(entries, tx.rows)
    /\ nextId' \in {nextId, tx.seq}
    /\ plan' = <<>>
    /\ pc' = "idle"
    /\ last' = [last EXCEPT !.result = "aborted"]
    /\ UNCHANGED <<nextGroup, pre, ops, tx, conn, response, accounts, catalog, invites, signups, issued>>

NextTx ==
    \/ pc = "idle" /\ \E user \in Users, req \in Requests : BeginCreate(user, req)
    \/ pc = "idle" /\ \E user \in Users, id \in Ids, scope \in Scopes, req \in Requests :
           BeginEdit(user, id, scope, req)
    \/ pc = "idle" /\ \E user \in Users, id \in Ids, scope \in Scopes :
           BeginDelete(user, id, scope)
    \/ TxWrite
    \/ TxCommit
    \/ TxAbort

SpecTx == Init /\ [][NextTx]_vars

(* ----------------------- the status of an entry -------------------------- *)

(* entry.get_status(reference_date = today, reference_time = current_time);  *)
(* last.id records the entry, last.req the clock and last.result the label.  *)
Classify(id, reference_date, reference_time) ==
    /\ Ready
    /\ id \in DOMAIN entries
    /\ ops' = ops + 1
    /\ pre' = entries
    /\ last' = Outcome("status", NULL, id, "single",
                       [NoReq EXCEPT !.date = reference_date, !.end_time = reference_time],
                       GetStatus(entries[id], reference_date, reference_time), 0)
    /\ UNCHANGED <<entries, nextId, nextGroup, tx, plan, pc, conn, response, accounts, catalog, invites, signups, issued>>

(* Entries are created, then read at any clock. *)
NextStatus ==
    \/ Ready /\ \E user \in Admins, req \in Requests : CreateEntry(user, req)
    \/ Ready /\ \E id \in Ids, reference_date \in Dates, reference_time \in Times :
           Classify(id, reference_date, reference_time)

SpecStatus == Init /\ [][NextStatus]_vars

(* ------------------------ calendar and export ---------------------------- *)
(*                                                                           *)
(* Here a date is the day number datetime.date counts with (toordinal):      *)
(* day 1 is 0001-01-01, a Monday, and the last day is 9999-12-31.            *)

IsLeap(year) == (year % 4 = 0 /\ year % 100 # 0) \/ year % 400 = 0

(* calendar.monthrange(year, month)[1] *)
MonthDays(year, month) ==
    IF month = 2 THEN (IF IsLeap(year) THEN 29 ELSE 28)
    ELSE IF month \in {4, 6, 9, 11} THEN 30 ELSE 31

RECURSIVE DaysBeforeMonth(_, _)
DaysBeforeMonth(year, month) ==
    IF month = 1 THEN 0
    ELSE DaysBeforeMonth(year, month - 1) + MonthDays(year, month - 1)

DaysBeforeYear(year) ==
    (year - 1) * 365 + (year - 1) \div 4 - (year - 1) \div 100 + (year - 1) \div 400

(* date(year, month, day) *)
ToOrdinal(year, month, day) == DaysBeforeYear(year) + DaysBeforeMonth(year, month) + day

(* date.min and date.max *)
MinOrdinal == ToOrdinal(1, 1, 1)

MaxOrdinal == ToOrdinal(9999, 12, 31)

(* date + timedelta raises OverflowError when the result is not a date *)
Overflows(day) == day < MinOrdinal \/ day > MaxOrdinal

(* date.weekday(): Monday is 0, Sunday is 6 *)
Weekday(day) == (day + 6) % 7

(* the week_day lookup of the ORM: Sunday is 1, Saturday is 7 *)
WeekDayLookup(day) == ((Weekday(day) + 1) % 7) + 1

(* str(n) of the numbers a label shows *)
Str(n) ==
    IF n = NULL THEN "None"
    ELSE <<"0", "1", "2", "3", "4", "5", "6", "7", "8", "9">>[n + 1]

(* _build_scheduler_context: one day cell of the grid *)
DayCell(rows, current_date, month_start, month_end, show_weekends) ==
    [date |-> current_date,
     is_current_month |-> current_date >= month_start /\ current_date <= month_end,
     is_weekend |-> Weekday(current_date) >= 5,
     is_hidden |-> ~show_weekends /\ Weekday(current_date) >= 5,
     entries |-> OrderByDate(rows, {i \in DOMAIN rows : rows[i].date = current_date})]

(* _build_scheduler_context: while pointer <= calendar_end, one week of 7 cells *)
RECURSIVE CalendarWeeks(_, _, _, _, _, _)
CalendarWeeks(rows, pointer, calendar_end, month_start, month_end, show_weekends) ==
    IF pointer <= calendar_end
    THEN <<[day_index \in 1..7 |->
              DayCell(rows, pointer + (day_index - 1), month_start, month_end, show_weekends)]>>
         \o CalendarWeeks(rows, pointer + 7, calendar_end, month_start, month_end,
                          show_weekends)
    ELSE <<>>

(* get_month_offset *)
GetMonthOffset(year, month, offset) ==
    LET total_months == (year * 12 + (month - 1)) + offset
    IN  [year |-> total_months \div 12, month |-> (total_months % 12) + 1]

(* nearby_months: date(badge_year, badge_month, 1) raises ValueError for a *)
(* year that is not in 1..9999.                                            *)
NearbyMonthsFail(year, month) ==
    \E offset \in (0 - 2)..2 : GetMonthOffset(year, month, offset).year \notin 1..9999

(* calendar_start: the Monday on or before the first day of the month *)
CalendarStart(year, month) ==
    ToOrdinal(year, month, 1) - Weekday(ToOrdinal(year, month, 1))

(* calendar_end: the Sunday on or after the last day of the month *)
CalendarEnd(year, month) ==
    ToOrdinal(year, month, MonthDays(year, month))
        + (6 - Weekday(ToOrdinal(year, month, MonthDays(year, month))))

(* _build_scheduler_context: the calendar grid of the requested month *)
BuildWindow(rows, year, month, show_weekends) ==
    LET current_month_start == ToOrdinal(year, month, 1)
        current_month_end == current_month_start + (MonthDays(year, month) - 1)
        calendar_start == CalendarStart(year, month)
        calendar_end == CalendarEnd(year, month)
    IN  IF Overflows(calendar_start) \/ Overflows(calendar_end)
           \/ NearbyMonthsFail(year, month)
        THEN [kind |-> "error", body |-> <<>>]
        ELSE [kind |-> "window",
              body |-> CalendarWeeks(rows, calendar_start, calendar_end,
                                     current_month_start, current_month_end, show_weekends)]

(* A date object as the ordinal the rows carry. *)
DateOrd(d) == ToOrdinal(d.year, d.month, d.day)

(* The try block that reads month and year: int() of a parameter that is   *)
(* present, the fallback date's value for one that is absent, and the       *)
(* fallback month and year when int() fails or the month is not in 1..12.   *)
ResolveMonth(month_param, year_param, fallback_date) ==
    IF month_param = MALFORMED \/ year_param = MALFORMED
    THEN [year |-> fallback_date.year, month |-> fallback_date.month]
    ELSE LET month_value == IF month_param = NULL THEN fallback_date.month ELSE month_param
             year_value == IF year_param = NULL THEN fallback_date.year ELSE year_param
         IN  IF month_value < 1 \/ month_value > 12
             THEN [year |-> fallback_date.year, month |-> fallback_date.month]
             ELSE [year |-> year_value, month |-> month_value]

(* The rows a queryset holds. *)
Keep(rows, S) == [i \in S |-> rows[i]]

(* entries_list: the teacher filter and the date filter *)
Filtered(rows, q) ==
    {i \in DOMAIN rows :
        /\ q.teacher # NULL => rows[i].teacher = q.teacher
        /\ q.date # NoDate => rows[i].date = DateOrd(q.date)}

(* Variant: the token leaves the derived status out. *)
StateBasisNoStatus(rows, i, today, current_time) ==
    [id |-> i, date |-> rows[i].date, start_time |-> rows[i].start_time,
     end_time |-> rows[i].end_time, teacher |-> rows[i].teacher,
     is_active |-> FALSE,
     recurrence_series_size |->
         IF rows[i].recurrence_group = NULL THEN 1
         ELSE Cardinality(SeriesIds(rows, rows[i].recurrence_group)),
     recurrence_index |-> rows[i].recurrence_index,
     status_code |-> "upcoming"]

(* state_basis: the line of one entry of the window *)
StateBasis(rows, i, today, current_time) ==
    [id |-> i, date |-> rows[i].date, start_time |-> rows[i].start_time,
     end_time |-> rows[i].end_time, teacher |-> rows[i].teacher,
     is_active |-> GetStatus(rows[i], DateOrd(today), current_time) = "active",
     recurrence_series_size |->
         IF rows[i].recurrence_group = NULL THEN 1
         ELSE Cardinality(SeriesIds(rows, rows[i].recurrence_group)),
     recurrence_index |-> rows[i].recurrence_index,
     status_code |-> GetStatus(rows[i], DateOrd(today), current_time)]

(* calendar_state_token: sha256 of the joined lines of month_entries, "0"    *)
(* when there is none.  The digest stands for the text it is computed from:  *)
(* the token is the sequence of lines, the empty sequence being "0".         *)
CalendarStateToken(rows, q, year, month, today, current_time) ==
    LET month_entries ==
            OrderByDate(rows, {i \in Filtered(rows, q) :
                                  /\ rows[i].date >= CalendarStart(year, month)
                                  /\ rows[i].date <= CalendarEnd(year, month)})
    IN  [k \in 1..Len(month_entries) |->
            StateBasis(rows, month_entries[k], today, current_time)]

(* The answer of a read request. *)
Answer(kind, body, token, year, month, changed) ==
    [kind |-> kind, body |-> body, token |-> token, year |-> year, month |-> month,
     changed |-> changed]

(* _build_scheduler_context *)
SchedulerContext(rows, q, today, current_time) ==
    IF q.date = BadDate
    THEN Answer("error", <<>>, <<>>, NULL, NULL, FALSE)
    ELSE LET resolved == ResolveMonth(q.month, q.year,
                                      IF q.date # NoDate THEN q.date ELSE today)
         IN  IF resolved.year \notin 1..9999
             THEN Answer("error", <<>>, <<>>, NULL, NULL, FALSE)
             ELSE LET window == BuildWindow(Keep(rows, Filtered(rows, q)),
                                            resolved.year, resolved.month,
                                            q.show_weekends)
                  IN  IF window.kind = "error"
                      THEN Answer("error", <<>>, <<>>, NULL, NULL, FALSE)
                      ELSE Answer("window", window.body,
                                  CalendarStateToken(rows, q, resolved.year,
                                                     resolved.month, today, current_time),
                                  resolved.year, resolved.month, FALSE)

(* export_schedule_csv: the column Recurring Series *)
RecurrenceLabel(row) ==
    IF row.recurrence_group # NULL /\ row.recurrence_total_occurrences \notin {NULL, 0}
    THEN <<Str(row.recurrence_index), " of ", Str(row.recurrence_total_occurrences)>>
    ELSE <<"N/A">>

(* Variant: the export shows every note. *)
PersonalNoteOfAnyone(row, user) == row.private_note

(* export_schedule_csv: the column Personal Note *)
PersonalNote(row, user) == IF row.teacher = user THEN row.private_note ELSE <<>>

(* export_schedule_csv: one data row; entry names the occurrence it was *)
(* written from.                                                        *)
CsvRow(rows, i, user) ==
    [entry |-> i, date |-> rows[i].date, start_time |-> rows[i].start_time,
     end_time |-> rows[i].end_time, teacher |-> rows[i].teacher,
     recurrence_label |-> RecurrenceLabel(rows[i]),
     personal_note |-> PersonalNote(rows[i], user)]

CsvHeader ==
    [entry |-> NULL, date |-> "Date", start_time |-> "Start Time",
     end_time |-> "End Time", teacher |-> "Teacher",
     recurrence_label |-> <<"Recurring Series">>,
     personal_note |-> <<"Personal Note">>]

(* Variant: the rows are written in the order of the primary key. *)
ExportScheduleCsvById(rows, user, q, today) ==
    IF q.date = BadDate
    THEN Answer("error", <<>>, <<>>, NULL, NULL, FALSE)
    ELSE LET resolved == ResolveMonth(q.month, q.year,
                                      IF q.date # NoDate THEN q.date ELSE today)
         IN  IF resolved.year \notin 1..9999
             THEN Answer("error", <<>>, <<>>, NULL, NULL, FALSE)
             ELSE LET month_start == ToOrdinal(resolved.year, resolved.month, 1)
                      month_end == ToOrdinal(resolved.year, resolved.month,
                                             MonthDays(resolved.year, resolved.month))
                      queryset ==
                          {i \in Filtered(rows, q) :
                              /\ rows[i].date >= month_start /\ rows[i].date <= month_end
                              /\ ~q.show_weekends =>
                                     WeekDayLookup(rows[i].date) \notin {1, 7}}
                      entries_list == SelectSeq([i \in 1..Cardinality(DOMAIN rows) |-> i],
                                               LAMBDA i : i \in queryset)
                  IN  IF DOMAIN rows = {} \/ queryset = {}
                      THEN Answer("nothing", <<>>, <<>>, resolved.year, resolved.month, FALSE)
                      ELSE Answer("csv",
                                  <<CsvHeader>>
                                  \o [k \in 1..Len(entries_list) |->
                                         CsvRow(rows, entries_list[k], user)],
                                  <<>>, resolved.year, resolved.month, FALSE)

(* export_schedule_csv *)
ExportScheduleCsv(rows, user, q, today) ==
    IF q.date = BadDate
    THEN Answer("error", <<>>, <<>>, NULL, NULL, FALSE)
    ELSE LET resolved == ResolveMonth(q.month, q.year,
                                      IF q.date # NoDate THEN q.date ELSE today)
         IN  IF resolved.year \notin 1..9999
             THEN Answer("error", <<>>, <<>>, NULL, NULL, FALSE)
             ELSE LET month_start == ToOrdinal(resolved.year, resolved.month, 1)
                      month_end == ToOrdinal(resolved.year, resolved.month,
                                             MonthDays(resolved.year, resolved.month))
                      queryset ==
                          {i \in Filtered(rows, q) :
                              /\ rows[i].date >= month_start /\ rows[i].date <= month_end
                              /\ ~q.show_weekends =>
                                     WeekDayLookup(rows[i].date) \notin {1, 7}}
                      entries_list == OrderByDate(rows, queryset)
                  IN  IF DOMAIN rows = {} \/ queryset = {}
                      THEN Answer("nothing", <<>>, <<>>, resolved.year, resolved.month, FALSE)
                      ELSE Answer("csv",
                                  <<CsvHeader>>
                                  \o [k \in 1..Len(entries_list) |->
                                         CsvRow(rows, entries_list[k], user)],
                                  <<>>, resolved.year, resolved.month, FALSE)

(* The dates of the stored entries: around February 2024, whose grid runs *)
(* from Monday 29 January to Sunday 3 March.                              *)
ShownDates ==
    {ToOrdinal(2024, 1, 28), ToOrdinal(2024, 1, 29), ToOrdinal(2024, 2, 1),
     ToOrdinal(2024, 2, 3), ToOrdinal(2024, 2, 4), ToOrdinal(2024, 2, 29),
     ToOrdinal(2024, 3, 1), ToOrdinal(2024, 3, 3), ToOrdinal(2024, 3, 4)}

ShownRows ==
    {NewRow(x[1], x[2], 0, 1, 1, NULL, NULL, NULL, NULL) : x \in Users \X ShownDates}
    \cup {NewRow(x[1], x[2], 1, 2, 1, NULL, NULL, NULL, NULL) : x \in Users \X ShownDates}
    \cup {NewRow(x[1], x[2], 0, 1, 1, 1, 7, 3, 2) : x \in Users \X ShownDates}

ShownStores == UNION {[1..n -> ShownRows] : n \in 0..MaxShown}

InitCalendar ==
    /\ InitSite
    /\ entries \in ShownStores
    /\ nextId = Cardinality(DOMAIN entries) + 1
    /\ nextGroup = 2
    /\ pre = entries
    /\ last = Outcome("none", NULL, NULL, "single", NoReq, "none", 0)
    /\ ops = 0
    /\ tx = [rows |-> NoRows, seq |-> 1]
    /\ plan = <<>>
    /\ pc = "idle"
    /\ conn = [p \in Conns |-> NoConn]
    /\ response = NoResponse

(* The months a calendar is asked for: every month of a common and of a     *)
(* leap year, and the first and the last month of the first and last year.  *)
WindowMonths == ({2023, 2024} \X (1..12)) \cup ({1, 9999} \X {1, 12})

ExportMonths == {2024} \X {1, 2, 3}

(* timezone.localtime() while the calendar is read: 1 February 2024. *)
CalendarToday == [year |-> 2024, month |-> 2, day |-> 1]

(* The query string of a read request. *)
Query(year, month, show_weekends, teacher, date) ==
    [year |-> year, month |-> month, show_weekends |-> show_weekends,
     teacher |-> teacher, date |-> date]

(* A read request as the history keeps it. *)
ReadRequest(kind, user, q, today, current_time, token) ==
    [kind |-> kind, user |-> user, year |-> q.year, month |-> q.month,
     show_weekends |-> q.show_weekends, teacher |-> q.teacher, date |-> q.date,
     today |-> today, current_time |-> current_time, token |-> token]

(* Variant: the page sweeps the past entries before it reads the store. *)
SchedulerSweeps(q, today, current_time) ==
    /\ Ready
    /\ ops' = ops + 1
    /\ LET first == PastDates(entries, DateOrd(today))
           remaining == Remove(entries, first)
           second == EndedToday(remaining, DateOrd(today), current_time)
           swept == Remove(remaining, second)
       IN  /\ entries' = swept
           /\ response' = [request |-> ReadRequest("calendar", NULL, q, today,
                                                   current_time, <<>>),
                           result |-> SchedulerContext(swept, q, today, current_time),
                           rows |-> swept,
                           issued |-> NoIssue]
    /\ UNCHANGED <<nextId, nextGroup, pre, last, tx, plan, pc, conn, accounts, catalog, invites, signups, issued>>

(* GET scheduler: the calendar page *)
Scheduler(q, today, current_time) ==
    /\ Ready
    /\ ops' = ops + 1
    /\ response' = [request |-> ReadRequest("calendar", NULL, q, today, current_time, <<>>),
                    result |-> SchedulerContext(entries, q, today, current_time),
                    rows |-> entries,
                    issued |-> NoIssue]
    /\ UNCHANGED <<entries, nextId, nextGroup, pre, last, tx, plan, pc, conn, accounts, catalog, invites, signups, issued>>

(* GET scheduler_updates: the poll that carries the token of an earlier answer *)
SchedulerUpdates(q, client_token, today, current_time) ==
    /\ Ready
    /\ ops' = ops + 1
    /\ LET context == SchedulerContext(entries, q, today, current_time)
       IN  response' =
               [request |-> ReadRequest("updates", NULL, q, today, current_time,
                                        client_token),
                result |-> IF context.kind = "error" THEN context
                           ELSE [context EXCEPT !.changed = client_token # context.token],
                rows |-> entries,
                issued |-> [rows |-> response.rows,
                            request |-> response.request,
                            result |-> [response.result EXCEPT !.body = <<>>]]]
    /\ UNCHANGED <<entries, nextId, nextGroup, pre, last, tx, plan, pc, conn, accounts, catalog, invites, signups, issued>>

(* GET export_schedule_csv *)
ExportCsv(user, q, today) ==
    /\ Ready
    /\ ops' = ops + 1
    /\ response' = [request |-> ReadRequest("export", user, q, today, NULL, <<>>),
                    result |-> ExportScheduleCsv(entries, user, q, today),
                    rows |-> entries,
                    issued |-> NoIssue]
    /\ UNCHANGED <<entries, nextId, nextGroup, pre, last, tx, plan, pc, conn, accounts, catalog, invites, signups, issued>>

NextCalendar ==
    \/ ops < MaxReads /\ \E ym \in WindowMonths, show_weekends \in BOOLEAN :
           Scheduler(Query(ym[1], ym[2], show_weekends, NULL, NoDate), CalendarToday, 0)
    \/ ops < MaxReads /\ \E ym \in ExportMonths, show_weekends \in BOOLEAN,
                            teacher_filter \in Users \cup {NULL} :
           ExportCsv(1, Query(ym[1], ym[2], show_weekends, teacher_filter, NoDate),
                     CalendarToday)

SpecCalendar == InitCalendar /\ [][NextCalendar]_vars

(* ---------------------- the calendar while it changes -------------------- *)

(* The store the polling starts from: entries of teacher 1 on Monday 29      *)
(* January and Thursday 1 February 2024, alone or second of a series.        *)
PollRows ==
    {NewRow(1, date, 0, 1, 1, NULL, NULL, NULL, NULL) :
        date \in {ToOrdinal(2024, 1, 29), ToOrdinal(2024, 2, 1)}}
    \cup {NewRow(1, date, 0, 1, 1, 1, 7, 2, 2) :
        date \in {ToOrdinal(2024, 1, 29), ToOrdinal(2024, 2, 1)}}

PollStores == UNION {[1..n -> PollRows] : n \in 0..MaxShown}

InitPolling ==
    /\ InitSite
    /\ entries \in PollStores
    /\ nextId = Cardinality(DOMAIN entries) + 1
    /\ nextGroup = 2
    /\ pre = entries
    /\ last = Outcome("none", NULL, NULL, "single", NoReq, "none", 0)
    /\ ops = 0
    /\ tx = [rows |-> NoRows, seq |-> 1]
    /\ plan = <<>>
    /\ pc = "idle"
    /\ conn = [p \in Conns |-> NoConn]
    /\ response = NoResponse

(* The forms posted between two polls. *)
PollForms ==
    {[teacher |-> 1, date |-> ToOrdinal(2024, 2, 1), start_time |-> 0, end_time |-> 1,
      is_recurring |-> FALSE, interval_days |-> NULL, occurrences |-> NULL],
     [teacher |-> 1, date |-> ToOrdinal(2024, 2, 1), start_time |-> 1, end_time |-> 2,
      is_recurring |-> FALSE, interval_days |-> NULL, occurrences |-> NULL],
     [teacher |-> 1, date |-> ToOrdinal(2024, 3, 4), start_time |-> 0, end_time |-> 1,
      is_recurring |-> FALSE, interval_days |-> NULL, occurrences |-> NULL]}

(* The clock of a request: before, during and after the entries of 1 February. *)
PollClocks ==
    {<<[year |-> 2024, month |-> 1, day |-> 29], 0>>,
     <<[year |-> 2024, month |-> 2, day |-> 1], 0>>,
     <<[year |-> 2024, month |-> 2, day |-> 1], 2>>}

(* The calendars polled: February and March 2024. *)
PollQueries == {Query(2024, month, FALSE, NULL, NoDate) : month \in {2, 3}}

NextPolling ==
    \/ Ready /\ \E q \in PollQueries, clock \in PollClocks :
           Scheduler(q, clock[1], clock[2])
    \/ Ready /\ response.result.kind = "window" /\
           \E q \in PollQueries, clock \in PollClocks :
               SchedulerUpdates(q, response.result.token, clock[1], clock[2])
    \/ Ready /\ \E req \in PollForms : CreateEntry(1, req)
    \/ Ready /\ \E id \in DOMAIN entries, req \in PollForms : EditEntry(1, id, "single", req)
    \/ Ready /\ \E id \in DOMAIN entries : DeleteEntry(1, id, "single")
    \/ Ready /\ \E user \in Users, id \in DOMAIN entries : UpdateNote(user, id, <<"x">>)
    \/ Ready /\ \E clock \in PollClocks : CleanupPastEntries(DateOrd(clock[1]), clock[2])

SpecPolling == InitPolling /\ [][NextPolling]_vars

(* ------------------- the month and year parameters ----------------------- *)

(* The query string as it is sent: month and year absent, not a number, in  *)
(* and out of range; the date filter absent, unparsable, or 10 May 2023.    *)
MonthParams == {NULL, MALFORMED, 0, 3, 13}

YearParams == {NULL, MALFORMED, 0, 2023, 10000}

DateFilters == {NoDate, BadDate, [year |-> 2023, month |-> 5, day |-> 10]}

NextParams ==
    \/ ops < MaxReads /\
           \E month_param \in MonthParams, year_param \in YearParams,
              date_filter \in DateFilters :
               Scheduler(Query(year_param, month_param, FALSE, NULL, date_filter),
                         CalendarToday, 0)
    \/ ops < MaxReads /\
           \E month_param \in MonthParams, year_param \in YearParams,
              date_filter \in DateFilters :
               ExportCsv(1, Query(year_param, month_param, FALSE, NULL, date_filter),
                         CalendarToday)

SpecParams == InitPolling /\ [][NextParams]_vars

(* ------------------------------ private notes --------------------------- *)

(* Entries of 1 February 2024 taught by the admin (user 1) or by the other *)
(* user, with and without a note.                                          *)
NoteRows ==
    {[NewRow(x[1], ToOrdinal(2024, 2, 1), 0, 1, 1, NULL, NULL, NULL, NULL)
         EXCEPT !.private_note = x[2]] : x \in Users \X {<<>>, <<"y">>}}

NoteStores == UNION {[1..n -> NoteRows] : n \in 0..MaxShown}

InitNotes ==
    /\ InitSite
    /\ entries \in NoteStores
    /\ nextId = Cardinality(DOMAIN entries) + 1
    /\ nextGroup = 2
    /\ pre = entries
    /\ last = Outcome("none", NULL, NULL, "single", NoReq, "none", 0)
    /\ ops = 0
    /\ tx = [rows |-> NoRows, seq |-> 1]
    /\ plan = <<>>
    /\ pc = "idle"
    /\ conn = [p \in Conns |-> NoConn]
    /\ response = NoResponse

NextNotes ==
    \/ Ready /\ \E user \in Users, id \in Ids, note \in Notes : UpdateNote(user, id, note)
    \/ Ready /\ \E user \in Users :
           ExportCsv(user, Query(2024, 2, FALSE, NULL, NoDate), CalendarToday)

SpecNotes == InitNotes /\ [][NextNotes]_vars

(* ------------------- update_recurrence_metadata alone -------------------- *)

(* Rows whose position and size may be anything: recurrence_index and        *)
(* recurrence_total_occurrences are plain columns, written only by the code   *)
(* that keeps them.                                                           *)
StaleRows ==
    {NewRow(1, date, 0, 1, 1, NULL, NULL, NULL, NULL) : date \in Dates}
    \cup
    {NewRow(1, x[1], 0, 1, 1, x[2], 1, x[3], x[4]) :
        x \in Dates \X {1, 2} \X {1, MaxIds} \X (1..MaxIds)}

StaleStores == UNION {[1..n -> StaleRows] : n \in 0..MaxIds}

InitReindex ==
    /\ InitSite
    /\ entries \in StaleStores
    /\ nextId = Cardinality(DOMAIN entries) + 1
    /\ nextGroup = 3
    /\ pre = entries
    /\ last = Outcome("none", NULL, NULL, "single", NoReq, "none", 0)
    /\ ops = 0
    /\ tx = [rows |-> NoRows, seq |-> 1]
    /\ plan = <<>>
    /\ pc = "idle"
    /\ conn = [p \in Conns |-> NoConn]
    /\ response = NoResponse

(* ScheduleEntry.update_recurrence_metadata(g); last.id records g and *)
(* last.count the number of rows it saved.                            *)
UpdateRecurrenceMetadata(g) ==
    /\ Ready
    /\ ops' = ops + 1
    /\ pre' = entries
    /\ entries' = Reindex(entries, g)
    /\ last' = Outcome("reindex", NULL, g, "single", NoReq, "ok",
                       Len(ReindexWrites(entries, g)))
    /\ UNCHANGED <<nextId, nextGroup, tx, plan, pc, conn, response, accounts, catalog, invites, signups, issued>>

NextReindex == Ready /\ \E g \in (1..MaxIds) \cup {NULL} : UpdateRecurrenceMetadata(g)

SpecReindex == InitReindex /\ [][NextReindex]_vars

(* -------------- two requests at a time, one connection each -------------- *)
(*                                                                           *)
(* Neither handler takes a lock of its own: no query on ScheduleEntry uses   *)
(* select_for_update.  What is left is what the database gives every         *)
(* transaction at its default READ COMMITTED level: a statement sees the     *)
(* rows committed before it started and the writes of its own transaction,   *)
(* and a row written by an open transaction cannot be written by another     *)
(* until the first one ends.                                                 *)

(* The rows a statement on connection p sees. *)
View(p) ==
    [i \in (DOMAIN entries \ conn[p].deleted) \cup DOMAIN conn[p].written |->
        IF i \in DOMAIN conn[p].written THEN conn[p].written[i] ELSE entries[i]]

(* The rows connection p holds write locks on. *)
Locked(p) ==
    IF conn[p].pc = "running"
    THEN (DOMAIN conn[p].written \cup conn[p].deleted) \cap DOMAIN entries
    ELSE {}

(* The rows a write statement is about to lock. *)
Touched(s) ==
    CASE s.op = "create" -> {}
      [] s.op \in {"save", "update"} -> {s.id}
      [] s.op = "delete" -> s.ids

(* The series the store is seeded with: created on day 0. *)
SeedForms == {r \in Requests : r.is_recurring /\ r.date = 0 /\ ~HasErrors(r) /\ ~LookupFails(r)}

(* The single-scope branches write neither the interval nor the count of the *)
(* form, so one value of each is drawn.                                      *)
ConcurrentForms ==
    {r \in Requests : ~HasErrors(r) /\ ~LookupFails(r) /\
        (r.is_recurring => r.interval_days = 1 /\ r.occurrences = 2)}

(* The handler read the entry, passed its checks and enters the atomic block. *)
(* The requests served together address one series.                          *)
ConnEnter(p, kind, id, steps) ==
    /\ conn[p].pc = "idle"
    /\ id \in DOMAIN entries
    /\ entries[id].recurrence_group # NULL
    /\ \A q \in Conns \ {p} :
           conn[q].pc # "idle" => conn[q].group = entries[id].recurrence_group
    /\ conn' = [conn EXCEPT ![p] =
                   [pc |-> "running", kind |-> kind, id |-> id,
                    group |-> entries[id].recurrence_group,
                    plan |-> steps, written |-> NoRows, deleted |-> {}]]
    /\ UNCHANGED <<entries, nextId, nextGroup, pre, last, ops, tx, plan, pc, response, accounts, catalog, invites, signups, issued>>

(* POST edit_schedule_entry with recurrence_scope = single *)
ConnBeginEdit(p, user, id, req) ==
    /\ IsAdmin(user) /\ ~HasErrors(req) /\ ~LookupFails(req)
    /\ id \in DOMAIN entries
    /\ ConnEnter(p, "edit", id, PlanEdit(entries, user, id, "single", req, nextGroup))

(* POST delete_schedule_entry with scope = single *)
ConnBeginDelete(p, user, id) ==
    /\ IsAdmin(user)
    /\ id \in DOMAIN entries
    /\ ConnEnter(p, "delete", id, PlanDelete(entries, id, "single"))

(* The next statement of the block on connection p.  A write waits while the *)
(* other connection holds the row; save(update_fields = ...) raises when its *)
(* UPDATE matches no row, which ends the block with a rollback.              *)
ConnStep(p) ==
    /\ conn[p].pc = "running"
    /\ conn[p].plan # <<>>
    /\ LET s == Head(conn[p].plan)
           rest == Tail(conn[p].plan)
       IN  IF s.op = "reindex"
           THEN /\ conn' = [conn EXCEPT ![p].plan = ReindexWrites(View(p), s.group) \o rest]
                /\ UNCHANGED nextId
           ELSE /\ \A q \in Conns \ {p} : Touched(s) \cap Locked(q) = {}
                /\ IF s.op = "update" /\ s.id \notin DOMAIN View(p)
                   THEN /\ conn' = [conn EXCEPT ![p].pc = "aborted", ![p].plan = <<>>,
                                                ![p].written = NoRows, ![p].deleted = {}]
                        /\ UNCHANGED nextId
                   ELSE LET d == ApplyStep([rows |-> View(p), seq |-> nextId], s)
                            hit == (DOMAIN conn[p].written \cup conn[p].deleted
                                    \cup (DOMAIN d.rows \ DOMAIN View(p))
                                    \cup (Touched(s) \cap DOMAIN View(p)))
                                   \cup (IF s.op = "save" THEN {s.id} ELSE {})
                        IN  /\ conn' = [conn EXCEPT
                                   ![p].plan = rest,
                                   ![p].written = [i \in hit \cap DOMAIN d.rows |-> d.rows[i]],
                                   ![p].deleted = hit \ DOMAIN d.rows]
                            /\ nextId' = d.seq
    /\ UNCHANGED <<entries, nextGroup, pre, last, ops, tx, plan, pc, response, accounts, catalog, invites, signups, issued>>

(* The block on connection p ends normally: COMMIT. *)
ConnCommit(p) ==
    /\ conn[p].pc = "running"
    /\ conn[p].plan = <<>>
    /\ entries' = View(p)
    /\ conn' = [conn EXCEPT ![p].pc = "committed",
                            ![p].written = NoRows, ![p].deleted = {}]
    /\ UNCHANGED <<nextId, nextGroup, pre, last, ops, tx, plan, pc, response, accounts, catalog, invites, signups, issued>>

(* A statement raises, or the database ends a deadlock: ROLLBACK. *)
ConnAbort(p) ==
    /\ conn[p].pc = "running"
    /\ conn' = [conn EXCEPT ![p].pc = "aborted", ![p].plan = <<>>,
                            ![p].written = NoRows, ![p].deleted = {}]
    /\ UNCHANGED <<entries, nextId, nextGroup, pre, last, ops, tx, plan, pc, response, accounts, catalog, invites, signups, issued>>

NextConcurrent ==
    \/ ops = 0 /\ \E user \in Admins, req \in SeedForms : CreateEntry(user, req)
    \/ \E p \in Conns : conn[p].pc = "idle" /\ entries # NoRows /\
           \E user \in Admins, id \in Ids, req \in ConcurrentForms :
               ConnBeginEdit(p, user, id, req)
    \/ \E p \in Conns : conn[p].pc = "idle" /\ entries # NoRows /\
           \E user \in Admins, id \in Ids : ConnBeginDelete(p, user, id)
    \/ \E p \in Conns : ConnStep(p)
    \/ \E p \in Conns : ConnCommit(p)
    \/ \E p \in Conns : ConnAbort(p)

SpecConcurrent == Init /\ [][NextConcurrent]_vars

(* ------------------------------ properties ----------------------------- *)

SeriesOf(rows) == {rows[i].recurrence_group : i \in DOMAIN rows} \ {NULL}

(* 1-based rank of member i among the members S in (date, start_time, id) order *)
Rank(rows, S, i) == 1 + Cardinality({j \in S : LessDateStartId(rows, j, i)})

Canonical(rows, g) ==
    \A i \in SeriesIds(rows, g) :
        /\ rows[i].recurrence_index = Rank(rows, SeriesIds(rows, g), i)
        /\ rows[i].recurrence_total_occurrences = Cardinality(SeriesIds(rows, g))

Standalone(row) ==
    /\ row.recurrence_group = NULL
    /\ row.recurrence_interval_days = NULL
    /\ row.recurrence_total_occurrences = NULL
    /\ row.recurrence_index = NULL

HasFields(row, req) ==
    /\ row.teacher = req.teacher
    /\ row.start_time = req.start_time
    /\ row.end_time = req.end_time

(* Equal but for the position and the size of the series. *)
SameButMetadata(a, b) ==
    a = [b EXCEPT !.recurrence_index = a.recurrence_index,
                  !.recurrence_total_occurrences = a.recurrence_total_occurrences]

Untouched(S) == \A j \in S : j \in DOMAIN entries /\ entries[j] = pre[j]

Created == DOMAIN entries \ DOMAIN pre

Done(kind) == last.kind = kind /\ last.result = "ok"

PreGroup == pre[last.id].recurrence_group

PreSeries == SeriesIds(pre, PreGroup)

EditedRecurring == Done("edit") /\ pre[last.id].recurrence_group # NULL

(* C1: after any sequence of create, edit and delete requests every series has *)
(* positions 1..N in (date, start_time, id) order and total_occurrences = N,    *)
(* N being the number of its members.                                           *)
C1_SeriesCanonical == \A g \in SeriesOf(entries) : Canonical(entries, g)

C1_Witness ==
    /\ EditedRecurring /\ last.req.is_recurring /\ last.scope = "single"
    /\ Cardinality(PreSeries) = 3
    /\ last.id \in DOMAIN entries
    /\ entries[last.id].recurrence_index # pre[last.id].recurrence_index

(* C2: in every reachable state each occurrence has its four recurrence fields *)
(* all null or all non-null.                                                   *)
C2_FieldsTogether ==
    \A i \in DOMAIN entries :
        \/ Standalone(entries[i])
        \/ /\ entries[i].recurrence_group # NULL
           /\ entries[i].recurrence_interval_days # NULL
           /\ entries[i].recurrence_total_occurrences # NULL
           /\ entries[i].recurrence_index # NULL

C2_Witness ==
    /\ EditedRecurring /\ ~last.req.is_recurring /\ last.scope = "single"
    /\ Standalone(entries[last.id])
    /\ \E j \in DOMAIN entries : entries[j].recurrence_group = PreGroup

(* C3: a recurring create with date d, interval i and count n adds exactly n   *)
(* occurrences sharing one fresh series id, position k dated d + i*(k-1), all  *)
(* with interval i and total n, and changes no pre-existing occurrence.        *)
C3_CreateSeries ==
    (Done("create") /\ last.req.is_recurring) =>
        /\ Cardinality(Created) = last.req.occurrences
        /\ Untouched(DOMAIN pre)
        /\ \E g \in 1..nextGroup :
              /\ g \notin SeriesOf(pre)
              /\ \A j \in Created :
                    /\ entries[j].recurrence_group = g
                    /\ entries[j].recurrence_interval_days = last.req.interval_days
                    /\ entries[j].recurrence_total_occurrences = last.req.occurrences
        /\ \A k \in 1..last.req.occurrences :
              \E j \in Created :
                  /\ entries[j].recurrence_index = k
                  /\ entries[j].date = last.req.date + last.req.interval_days * (k - 1)

C3_Witness ==
    /\ Done("create") /\ last.req.is_recurring
    /\ last.req.occurrences = 2 /\ last.req.interval_days = 2
    /\ DOMAIN pre # {}

(* C4: editing a standalone occurrence e with recurrence requested (date D,    *)
(* interval i, count n) keeps e as position 1 of a fresh series dated D,       *)
(* creates exactly n-1 occurrences dated D + i*k at position k+1, gives all n  *)
(* members interval i and total n, and changes no other occurrence.            *)
C4_EditMakesSeries ==
    (Done("edit") /\ pre[last.id].recurrence_group = NULL /\ last.req.is_recurring) =>
        /\ last.id \in DOMAIN entries
        /\ entries[last.id].recurrence_index = 1
        /\ entries[last.id].date = last.req.date
        /\ entries[last.id].recurrence_group # NULL
        /\ entries[last.id].recurrence_group \notin SeriesOf(pre)
        /\ Cardinality(Created) = last.req.occurrences - 1
        /\ \A k \in 1..(last.req.occurrences - 1) :
              \E j \in Created :
                  /\ entries[j].recurrence_index = k + 1
                  /\ entries[j].date = last.req.date + last.req.interval_days * k
        /\ \A j \in Created \cup {last.id} :
              /\ entries[j].recurrence_group = entries[last.id].recurrence_group
              /\ entries[j].recurrence_interval_days = last.req.interval_days
              /\ entries[j].recurrence_total_occurrences = last.req.occurrences
        /\ Untouched(DOMAIN pre \ {last.id})

C4_Witness ==
    /\ Done("edit") /\ pre[last.id].recurrence_group = NULL /\ last.req.is_recurring
    /\ last.req.date # pre[last.id].date
    /\ last.req.interval_days = 2
    /\ DOMAIN pre \ {last.id} # {}

EditedSeries == EditedRecurring /\ last.scope = "series" /\ Cardinality(PreSeries) > 1

EditedSingle == EditedRecurring /\ last.scope = "single" /\ Cardinality(PreSeries) > 1

(* C5: a series-scope edit of a recurring occurrence of rank r (series of m > 1 *)
(* members) with date D, interval i and count n leaves exactly n members, the   *)
(* member at position k dated D - i*(r-1) + i*(k-1), all with interval i, total *)
(* n and the submitted fields; the former ranks 1..min(m,n) keep their          *)
(* identities, the former ranks above n are deleted, n-m members are created    *)
(* when n > m.                                                                  *)
C5_EditSeries ==
    (EditedSeries /\ last.req.is_recurring) =>
        LET members == SeriesIds(entries, PreGroup)
            r == Rank(pre, PreSeries, last.id)
            m == Cardinality(PreSeries)
            n == last.req.occurrences
            i == last.req.interval_days
        IN  /\ Cardinality(members) = n
            /\ \A k \in 1..n :
                  \E j \in members :
                      /\ entries[j].recurrence_index = k
                      /\ entries[j].date = last.req.date - i * (r - 1) + i * (k - 1)
            /\ \A j \in members :
                  /\ entries[j].recurrence_interval_days = i
                  /\ entries[j].recurrence_total_occurrences = n
                  /\ HasFields(entries[j], last.req)
            /\ \A j \in PreSeries :
                  IF Rank(pre, PreSeries, j) <= n
                  THEN j \in members
                  ELSE j \notin DOMAIN entries
            /\ Cardinality(Created) = (IF n > m THEN n - m ELSE 0)
            /\ Created \subseteq members

C5_Witness ==
    /\ EditedSeries /\ last.req.is_recurring
    /\ Rank(pre, PreSeries, last.id) = 2
    /\ pre[last.id].recurrence_index # 2
    /\ last.req.interval_days = 2
    /\ last.req.date # pre[last.id].date

(* C6: a series-scope edit that switches recurrence off, on member e with date *)
(* D, moves every member by d = D - (prior date of e), applies the submitted   *)
(* fields to every member, clears the four recurrence fields of every member   *)
(* and creates or deletes no occurrence.                                       *)
C6_DissolveSeries ==
    (EditedSeries /\ ~last.req.is_recurring) =>
        /\ DOMAIN entries = DOMAIN pre
        /\ \A j \in PreSeries :
              /\ entries[j].date = pre[j].date + (last.req.date - pre[last.id].date)
              /\ HasFields(entries[j], last.req)
              /\ Standalone(entries[j])

C6_Witness ==
    /\ EditedSeries /\ ~last.req.is_recurring
    /\ last.req.date # pre[last.id].date
    /\ Cardinality(PreSeries) = 3
    /\ \E j \in PreSeries : ~HasFields(pre[j], last.req)

(* C7: a single-scope edit that switches recurrence off, on a member of an     *)
(* n-member series (n > 1), gives the submitted fields to that occurrence only *)
(* and clears its recurrence fields; the other n-1 members keep identity, date *)
(* and fields and end at positions 1..n-1 in (date, start_time, id) order with *)
(* total n-1.                                                                  *)
C7_DetachSingle ==
    (EditedSingle /\ ~last.req.is_recurring) =>
        /\ DOMAIN entries = DOMAIN pre
        /\ Standalone(entries[last.id])
        /\ HasFields(entries[last.id], last.req)
        /\ entries[last.id].date = last.req.date
        /\ SeriesIds(entries, PreGroup) = PreSeries \ {last.id}
        /\ \A j \in PreSeries \ {last.id} : SameButMetadata(entries[j], pre[j])
        /\ Canonical(entries, PreGroup)
        /\ Untouched(DOMAIN pre \ PreSeries)

C7_Witness ==
    /\ EditedSingle /\ ~last.req.is_recurring
    /\ Cardinality(PreSeries) = 3
    /\ pre[last.id].recurrence_index = 2
    /\ ~HasFields(pre[last.id], last.req)

(* C8: deleting one occurrence of an n-member series (n > 1) with scope single *)
(* removes that occurrence only and leaves n-1 members with unchanged dates,   *)
(* positions 1..n-1 in (date, start_time, id) order and total n-1; deleting a  *)
(* standalone occurrence changes no other occurrence.                          *)
C8_DeleteSingle ==
    Done("delete") =>
        /\ (pre[last.id].recurrence_group # NULL /\ last.scope = "single"
                /\ Cardinality(PreSeries) > 1) =>
              /\ DOMAIN entries = DOMAIN pre \ {last.id}
              /\ SeriesIds(entries, PreGroup) = PreSeries \ {last.id}
              /\ \A j \in PreSeries \ {last.id} : SameButMetadata(entries[j], pre[j])
              /\ Canonical(entries, PreGroup)
        /\ pre[last.id].recurrence_group = NULL =>
              /\ DOMAIN entries = DOMAIN pre \ {last.id}
              /\ Untouched(DOMAIN pre \ {last.id})

C8_Witness ==
    /\ Done("delete") /\ last.scope = "single"
    /\ pre[last.id].recurrence_group # NULL
    /\ Cardinality(PreSeries) = 3
    /\ pre[last.id].recurrence_index = 2

(* C9: delete with scope series on a member of a series of more than one       *)
(* member removes exactly the occurrences of that series and reports their     *)
(* number; on a standalone occurrence or a one-member series it deletes that   *)
(* occurrence only.                                                            *)
C9_DeleteSeries ==
    (Done("delete") /\ last.scope = "series") =>
        IF pre[last.id].recurrence_group # NULL /\ Cardinality(PreSeries) > 1
        THEN /\ DOMAIN entries = DOMAIN pre \ PreSeries
             /\ Untouched(DOMAIN pre \ PreSeries)
             /\ last.count = Cardinality(PreSeries)
        ELSE /\ DOMAIN entries = DOMAIN pre \ {last.id}
             /\ Untouched(DOMAIN pre \ {last.id})

C9_Witness ==
    /\ Done("delete") /\ last.scope = "series"
    /\ pre[last.id].recurrence_group # NULL
    /\ Cardinality(PreSeries) = 2
    /\ DOMAIN pre \ PreSeries # {}

(* C10: a recurring create, an edit or a series delete that fails between its *)
(* first and its last write leaves the committed store as it was before the   *)
(* request, and no other request observes a partly written series.            *)
C10_Atomic ==
    /\ last.result = "aborted" => entries = pre
    /\ pc = "running" => entries = pre

C10_Witness ==
    /\ last.result = "aborted"
    /\ last.kind = "edit" /\ last.scope = "series" /\ last.req.is_recurring
    /\ Cardinality(SeriesIds(pre, pre[last.id].recurrence_group)) > 1
    /\ \E j \in DOMAIN pre : j \in DOMAIN tx.rows /\ tx.rows[j] # pre[j]
    /\ \E j \in DOMAIN pre : j \in DOMAIN tx.rows /\ tx.rows[j] = pre[j]
    /\ entries = pre

(* A form the contract says must be refused: a required field missing, a date *)
(* or a time that does not parse, an end not after the start, a recurrence    *)
(* with a bad interval or count, or a selection that does not exist.          *)
Rejectable(req) ==
    \/ req.teacher = NULL \/ req.date = NULL
    \/ req.start_time = NULL \/ req.end_time = NULL
    \/ req.date = MALFORMED \/ req.start_time = MALFORMED \/ req.end_time = MALFORMED
    \/ /\ req.start_time \in Times /\ req.end_time \in Times
       /\ ~(req.end_time > req.start_time)
    \/ /\ req.is_recurring
       /\ \/ req.interval_days \notin Nat \/ req.interval_days <= 0
          \/ req.occurrences \notin Nat \/ req.occurrences < 2
    \/ req.teacher = UnknownId

(* C11: a create or edit request whose form fails validation, or names a      *)
(* teacher (classroom, subject, course, group) that does not exist, is        *)
(* refused and the store is exactly as it was before the request.             *)
C11_RejectedBeforeWrite ==
    (last.kind \in {"create", "edit"} /\ Rejectable(last.req)) =>
        /\ last.result # "ok"
        /\ entries = pre

C11_Witness ==
    /\ last.kind = "edit" /\ last.result = "invalid"
    /\ last.req.is_recurring /\ last.req.interval_days = MALFORMED
    /\ last.req.teacher = UnknownId
    /\ DOMAIN pre # {}

(* C12: every occurrence written by create or edit, the members a series edit *)
(* creates or updates included, ends strictly after it starts; so in every    *)
(* state reached through create, edit and delete requests all occurrences     *)
(* have end_time > start_time.                                                 *)
C12_EndAfterStart ==
    \A i \in DOMAIN entries : entries[i].end_time > entries[i].start_time

C12_Witness ==
    /\ EditedSeries /\ last.req.is_recurring
    /\ Created # {}
    /\ \E j \in PreSeries \ {last.id} :
           j \in DOMAIN entries /\ entries[j].end_time # pre[j].end_time

(* C13: two mutations of one series served at the same time: once both have  *)
(* committed, the series has positions 1..N in (date, start_time, id) order   *)
(* and total_occurrences = N for its N surviving members.                     *)
C13_SerializedBySeries ==
    (\A p \in Conns : conn[p].pc = "committed") =>
        \A p \in Conns : Canonical(entries, conn[p].group)

(* C14: Reindex is idempotent.  Whatever positions and totals the store held, *)
(* after Reindex(g) has run a second run yields the same store and writes no   *)
(* record; Reindex of a null series or of a series without members changes     *)
(* nothing.                                                                    *)
C14_ReindexIdempotent ==
    last.kind = "reindex" =>
        /\ Reindex(entries, last.id) = entries
        /\ ReindexWrites(entries, last.id) = <<>>
        /\ (last.id = NULL \/ SeriesIds(pre, last.id) = {}) =>
               (entries = pre /\ last.count = 0)

C14_Witness ==
    /\ last.kind = "reindex" /\ last.id # NULL
    /\ Cardinality(SeriesIds(pre, last.id)) = 3
    /\ \A i \in SeriesIds(pre, last.id) : pre[i].recurrence_index = 2
    /\ last.count = 3
    /\ entries # pre

(* C15: CleanupPastEntries at (today, now) deletes exactly the occurrences    *)
(* dated before today and those dated today that ended before now; one dated  *)
(* today that ends at or after now, and any later one, is kept unchanged; the  *)
(* count returned is the number of occurrences deleted.                        *)
C15_CleanupExact ==
    Done("cleanup") =>
        LET today == last.req.date
            now == last.req.end_time
        IN  /\ \A i \in DOMAIN pre :
                   (i \notin DOMAIN entries) <=>
                       (pre[i].date < today \/ (pre[i].date = today /\ pre[i].end_time < now))
            /\ \A i \in DOMAIN entries : i \in DOMAIN pre /\ entries[i] = pre[i]
            /\ last.count = Cardinality(DOMAIN pre \ DOMAIN entries)

C15_Witness ==
    /\ Done("cleanup") /\ last.count = 2
    /\ \E i \in DOMAIN pre \ DOMAIN entries : pre[i].date < last.req.date
    /\ \E i \in DOMAIN pre \ DOMAIN entries :
           pre[i].date = last.req.date /\ pre[i].end_time < last.req.end_time
    /\ \E i \in DOMAIN entries :
           entries[i].date = last.req.date /\ entries[i].end_time = last.req.end_time

Labels == {"upcoming", "active", "finished"}

(* C16: Classify returns exactly one label: upcoming iff the entry starts     *)
(* after the reference instant; otherwise finished iff it ended before it;     *)
(* otherwise active, and then the entry is dated on the reference date with    *)
(* start_time <= reference_time <= end_time.  Classify modifies no state.      *)
C16_ClassifyExact ==
    last.kind = "status" =>
        LET e == entries[last.id]
            rd == last.req.date
            rt == last.req.end_time
            later == e.date > rd \/ (e.date = rd /\ e.start_time > rt)
            over == e.date < rd \/ (e.date = rd /\ e.end_time < rt)
        IN  /\ last.result \in Labels
            /\ (last.result = "upcoming") <=> later
            /\ (last.result = "finished") <=> (~later /\ over)
            /\ (last.result = "active") =>
                   (e.date = rd /\ e.start_time <= rt /\ rt <= e.end_time)
            /\ entries = pre

C16_Witness ==
    /\ last.kind = "status" /\ last.result = "active"
    /\ entries[last.id].end_time = last.req.end_time
    /\ entries[last.id].start_time < last.req.end_time

(* The lifecycle order of the labels. *)
Stage(label) == CASE label = "upcoming" -> 1 [] label = "active" -> 2 [] label = "finished" -> 3

(* (date, time) instants compared as pairs *)
NotBefore(d2, t2, d1, t1) == d2 > d1 \/ (d2 = d1 /\ t2 >= t1)

(* C17: labels are monotonic in time: for an unmodified occurrence classified *)
(* at an instant, its label at any later instant is never earlier in the       *)
(* order upcoming, active, finished; once finished it is never active or       *)
(* upcoming again.                                                             *)
C17_LabelsMonotonic ==
    last.kind = "status" =>
        \A d2 \in Dates, t2 \in Times :
            NotBefore(d2, t2, last.req.date, last.req.end_time) =>
                Stage(last.result) <= Stage(GetStatus(entries[last.id], d2, t2))

C17_Witness ==
    /\ last.kind = "status" /\ last.result = "finished"
    /\ entries[last.id].date = last.req.date
    /\ \E d2 \in Dates, t2 \in Times :
           d2 > last.req.date /\ t2 < entries[last.id].end_time

(* The shape of a calendar grid for the month of (year, month). *)
WholeWeeksAround(weeks, year, month) ==
    LET first == ToOrdinal(year, month, 1)
        final == ToOrdinal(year, month, MonthDays(year, month))
        cells == {<<w, k>> : w \in 1..Len(weeks), k \in 1..7}
    IN  /\ Len(weeks) >= 1
        /\ \A w \in 1..Len(weeks) : Len(weeks[w]) = 7
        /\ \A c \in cells :
               weeks[c[1]][c[2]].date = weeks[1][1].date + 7 * (c[1] - 1) + (c[2] - 1)
        /\ Weekday(weeks[1][1].date) = 0
        /\ weeks[1][1].date <= first /\ first - weeks[1][1].date < 7
        /\ Weekday(weeks[Len(weeks)][7].date) = 6
        /\ weeks[Len(weeks)][7].date >= final /\ weeks[Len(weeks)][7].date - final < 7
        /\ \A day \in first..final :
               Cardinality({c \in cells : weeks[c[1]][c[2]].date = day}) = 1

(* C18: BuildWindow for any valid (year, month) returns a grid of consecutive *)
(* dates in weeks of exactly 7 day cells, from the Monday on or before the 1st *)
(* to the Sunday on or after the last day of the month, so that every date of  *)
(* the month appears exactly once; also when no occurrence matches.            *)
C18_WholeWeeks ==
    response.request.kind = "calendar" =>
        /\ response.result.kind = "window"
        /\ WholeWeeksAround(response.result.body, response.request.year,
                            response.request.month)

(* The occurrences an export request asks for, with the dates from..until. *)
Requested(from, until) ==
    {i \in DOMAIN entries :
        /\ response.request.teacher # NULL => entries[i].teacher = response.request.teacher
        /\ entries[i].date >= from /\ entries[i].date <= until
        /\ ~response.request.show_weekends => Weekday(entries[i].date) \notin {5, 6}}

(* The occurrences the data rows of the last export were written from. *)
Exported ==
    {response.result.body[k].entry : k \in 2..Len(response.result.body)}

C20_ExportCoversWindow ==
    response.request.kind = "export" =>
        LET first == ToOrdinal(response.request.year, response.request.month, 1)
            final == ToOrdinal(response.request.year, response.request.month,
                               MonthDays(response.request.year, response.request.month))
            calendar_start == first - Weekday(first)
            calendar_end == final + (6 - Weekday(final))
        IN  /\ Requested(calendar_start, calendar_end) \subseteq Exported
            /\ \A i \in Exported :
                   /\ response.request.teacher # NULL =>
                          entries[i].teacher = response.request.teacher
                   /\ ~response.request.show_weekends =>
                          Weekday(entries[i].date) \notin {5, 6}

(* C23: after a series-scope edit of a recurring occurrence e that stays       *)
(* recurring, with submitted date D, e still exists as a member of its series  *)
(* and is dated D, whatever the rank of e and the new number of occurrences.   *)
C23_EditedLandsOnDate ==
    (EditedSeries /\ last.req.is_recurring) =>
        /\ last.id \in DOMAIN entries
        /\ entries[last.id].recurrence_group = PreGroup
        /\ entries[last.id].date = last.req.date

(* The last request was an edit of one occurrence of a series that left the *)
(* recurrence box ticked.                                                    *)
EditedOne ==
    EditedRecurring /\ last.req.is_recurring /\ last.scope = "single"

(* C24 as stated: a single-scope edit of a recurring occurrence that stays     *)
(* recurring changes only the submitted reference, date and time fields of the *)
(* edited occurrence; its series, interval, total and position are as before   *)
(* and no sibling is modified, created or deleted.                             *)
C24_SingleEditFrame ==
    EditedOne =>
        /\ DOMAIN entries = DOMAIN pre
        /\ entries[last.id] = WithFields(pre[last.id], last.req, last.req.date)
        /\ Untouched(DOMAIN pre \ {last.id})

(* C24, amended: such an edit gives the edited occurrence the submitted        *)
(* fields and keeps its series and interval; no occurrence is created or       *)
(* deleted; the siblings are unchanged but for position and total, which the   *)
(* Reindex that follows the edit sets, for every member, to its rank in (date, *)
(* start_time, id) order and to the number of members; occurrences outside the *)
(* series are unchanged.                                                       *)
C24_SingleEditThenReindex ==
    EditedOne =>
        /\ DOMAIN entries = DOMAIN pre
        /\ HasFields(entries[last.id], last.req)
        /\ entries[last.id].date = last.req.date
        /\ SameButMetadata(entries[last.id],
                           WithFields(pre[last.id], last.req, last.req.date))
        /\ SeriesIds(entries, PreGroup) = PreSeries
        /\ \A j \in PreSeries \ {last.id} : SameButMetadata(entries[j], pre[j])
        /\ Canonical(entries, PreGroup)
        /\ Untouched(DOMAIN pre \ PreSeries)

C24_Witness ==
    /\ EditedOne
    /\ Cardinality(PreSeries) > 1
    /\ last.req.date # pre[last.id].date
    /\ entries[last.id].recurrence_index # pre[last.id].recurrence_index
    /\ \E j \in PreSeries \ {last.id} : entries[j] # pre[j]

(* C25: CleanupPastEntries does not reindex: no field of a surviving           *)
(* occurrence is modified, so the survivors of a series that lost members keep *)
(* their position and total; a second run at the same instant would find       *)
(* nothing to delete and return 0.                                             *)
C25_CleanupKeepsMetadata ==
    Done("cleanup") =>
        LET first == PastDates(entries, last.req.date)
            second == EndedToday(Remove(entries, first), last.req.date, last.req.end_time)
        IN  /\ \A i \in DOMAIN entries : i \in DOMAIN pre /\ entries[i] = pre[i]
            /\ Cardinality(first) + Cardinality(second) = 0

C25_Witness ==
    /\ Done("cleanup") /\ last.count > 0
    /\ \E i \in DOMAIN entries :
           /\ entries[i].recurrence_group # NULL
           /\ SeriesIds(pre, entries[i].recurrence_group)
                  # SeriesIds(entries, entries[i].recurrence_group)
           /\ entries[i].recurrence_index = 2
           /\ entries[i].recurrence_total_occurrences = 2
           /\ ~Canonical(entries, entries[i].recurrence_group)

(* The occurrences of the window of (year, month) that pass the filters of q. *)
Visible(rows, q, year, month) ==
    {i \in DOMAIN rows :
        /\ q.teacher # NULL => rows[i].teacher = q.teacher
        /\ q.date # NoDate => rows[i].date = DateOrd(q.date)
        /\ rows[i].date >= CalendarStart(year, month)
        /\ rows[i].date <= CalendarEnd(year, month)}

(* What the calendar shows of an occurrence: date, times, referenced entities, *)
(* the position in its series and the number of members of the series, and     *)
(* the status at the clock of the request.                                     *)
ShownOf(rows, i, rq) ==
    [date |-> rows[i].date, start_time |-> rows[i].start_time,
     end_time |-> rows[i].end_time, teacher |-> rows[i].teacher,
     position |-> rows[i].recurrence_index,
     size |-> Cardinality({j \in DOMAIN rows :
                              /\ rows[i].recurrence_group # NULL
                              /\ rows[j].recurrence_group = rows[i].recurrence_group}),
     status |-> GetStatus(rows[i], DateOrd(rq.today), rq.current_time)]

(* The last request was a poll with the token of the answer before it, for *)
(* the same month and filters.                                              *)
PolledAgain ==
    /\ response.request.kind = "updates"
    /\ response.result.kind = "window"
    /\ response.issued.result.kind = "window"
    /\ response.request.token = response.issued.result.token
    /\ response.result.year = response.issued.result.year
    /\ response.result.month = response.issued.result.month
    /\ response.request.teacher = response.issued.request.teacher
    /\ response.request.date = response.issued.request.date

PastAt(rows, rq) ==
    {i \in DOMAIN rows :
        \/ rows[i].date < DateOrd(rq.today)
        \/ rows[i].date = DateOrd(rq.today) /\ rows[i].end_time < rq.current_time}

(* C26 as stated: every calendar read (scheduler page or scheduler_updates     *)
(* poll) runs CleanupPastEntries, so after the read the store holds no         *)
(* occurrence dated before today and none dated today that has ended.          *)
C26_ReadSweeps ==
    (response.request.kind \in {"calendar", "updates"} /\ response.rows = entries) =>
        PastAt(entries, response.request) = {}

(* C26, amended: a calendar read (scheduler page or scheduler_updates poll)    *)
(* does not run CleanupPastEntries and writes nothing: the store after the     *)
(* read is the store before it, and an occurrence of the window that has ended *)
(* is still stored and is reported with the status finished.  The sweep runs   *)
(* only when cleanup_past_entries is called (the cleanup_schedule command),    *)
(* and after that call the store holds no occurrence that ended before its     *)
(* clock.                                                                      *)
C26_ReadsKeepStore ==
    /\ [](response.request.kind \in {"calendar", "updates"}
            /\ response.result.kind = "window" =>
              \A i \in Visible(response.rows, response.request,
                               response.result.year, response.result.month) :
                  \E k \in DOMAIN response.result.token :
                      /\ response.result.token[k].id = i
                      /\ i \in PastAt(response.rows, response.request) =>
                             response.result.token[k].status_code = "finished")
    /\ [](Done("cleanup") =>
              PastDates(entries, last.req.date) \cup
              EndedToday(entries, last.req.date, last.req.end_time) = {})
    /\ [][response' # response => entries' = entries /\ response'.rows = entries]_vars

C26_Witness ==
    /\ response.request.kind = "updates"
    /\ response.result.kind = "window"
    /\ response.rows = entries
    /\ \E k \in DOMAIN response.result.token :
           /\ response.result.token[k].date < DateOrd(response.request.today)
           /\ response.result.token[k].status_code = "finished"
           /\ response.result.token[k].id \in DOMAIN entries

(* A month or year parameter that is not a number or is out of range. *)
BadMonthOrYear(rq) ==
    \/ rq.month = MALFORMED
    \/ rq.year = MALFORMED
    \/ rq.month # NULL /\ rq.month \notin 1..12
    \/ rq.year # NULL /\ rq.year \notin 1..9999

(* C27: the calendar asked for with a month or year parameter that is out of   *)
(* range or not a number, with or without a date filter, is built without an   *)
(* error and is the calendar of today's month and year.                        *)
C27_FallsBackToToday ==
    (response.request.kind = "calendar" /\ BadMonthOrYear(response.request)) =>
        /\ response.result.kind = "window"
        /\ response.result.year = response.request.today.year
        /\ response.result.month = response.request.today.month

(* C29: update_schedule_entry_note changes the private_note of an occurrence   *)
(* only when the requesting user is its teacher; a request from anyone else,   *)
(* an admin included, leaves the store unchanged; a successful update changes  *)
(* nothing but the private_note of that one occurrence; the CSV export shows a *)
(* note only in the rows whose teacher is the requesting user.                 *)
C29_NoteOwnerOnly ==
    /\ last.kind = "note" =>
          IF last.result = "ok"
          THEN /\ pre[last.id].teacher = last.user
               /\ DOMAIN entries = DOMAIN pre
               /\ \A j \in DOMAIN pre \ {last.id} : entries[j] = pre[j]
               /\ entries[last.id] =
                      [pre[last.id] EXCEPT !.private_note = entries[last.id].private_note]
          ELSE entries = pre
    /\ (response.request.kind = "export" /\ response.result.kind = "csv") =>
          \A k \in 2..Len(response.result.body) :
              LET line == response.result.body[k]
                  row == response.rows[line.entry]
              IN  IF row.teacher = response.request.user
                  THEN line.personal_note = row.private_note
                  ELSE line.personal_note = <<>>

C29_Witness ==
    /\ Done("note") /\ entries[last.id].private_note = <<"x">>
    /\ pre[last.id].private_note = <<"y">>
    /\ response.request.kind = "export" /\ response.result.kind = "csv"
    /\ response.request.user = 1
    /\ response.rows = entries
    /\ \E k \in 2..Len(response.result.body) :
           /\ response.result.body[k].teacher = 2
           /\ entries[response.result.body[k].entry].private_note # <<>>
           /\ response.result.body[k].personal_note = <<>>
    /\ \E k \in 2..Len(response.result.body) :
           /\ response.result.body[k].teacher = 1
           /\ response.result.body[k].personal_note = <<"x">>

(* ---------------------- signups and invite codes ----------------------- *)

(* forms.py: a signup validates its form (clean_invite_code and the        *)
(* username's uniqueness, read without a lock), then runs save() inside    *)
(* transaction.atomic: _consume_invite takes the row lock of the invite    *)
(* with select_for_update, checks it again, decrements or deletes it, and  *)
(* the user row is inserted and put into the teacher group.  A             *)
(* ValidationError raised by _consume_invite leaves the atomic block and   *)
(* rolls back what the block wrote, the delete of an expired or exhausted  *)
(* invite included.  Two connections serve signups at the same time under  *)
(* READ COMMITTED.                                                         *)

MaxSignups == 3
MaxCodes == 2
MaxUses == 2

Codes == 1..MaxCodes
Flows == {"password", "sso"}

(* The groups manage.py seed_groups creates. *)
SeededGroups == {"admin", "teacher"}

(* Usernames a signup submits: one that is taken and two that are free. *)
SignupNames == {1, NumUsers + 1, NumUsers + 2}

(* expiration_date compared with timezone.now(): not set, ahead or passed. *)
Expirations == {"none", "future", "past"}

Invite(remaining_uses, expiration, creator) ==
    [remaining_uses |-> remaining_uses, expiration |-> expiration,
     creator |-> creator]

InviteTables ==
    UNION {[S -> {Invite(k, e, 1) : k \in 1..MaxUses, e \in Expirations}] :
           S \in SUBSET Codes}

(* The schedule is empty; every subset of the codes has been issued, each *)
(* code with some uses left and with or without an expiration date.       *)
InitSignups ==
    /\ accounts = DefaultAccounts
    /\ catalog = [t \in Tables |-> NoRows]
    /\ invites \in InviteTables
    /\ issued = [c \in DOMAIN invites |-> invites[c].remaining_uses]
    /\ signups = [p \in Conns |-> NoSignup]
    /\ response = NoResponse
    /\ conn = [p \in Conns |-> NoConn]
    /\ entries = NoRows
    /\ nextId = 1
    /\ nextGroup = 1
    /\ pre = NoRows
    /\ last = Outcome("none", NULL, NULL, "single", NoReq, "none", 0)
    /\ ops = 0
    /\ tx = [rows |-> NoRows, seq |-> 1]
    /\ plan = <<>>
    /\ pc = "idle"

SignupDone(p, flow, code, username, result) ==
    /\ signups' = [signups EXCEPT ![p] = NoSignup]
    /\ last' = Outcome("signup", username, code, flow, NoReq, result, 0)

(* InviteCode.expiration_date and expiration_date < timezone.now() *)
Expired(invite) == invite.expiration = "past"

(* form.is_valid(): clean_invite_code and the unique username *)
SignupValidate(p, flow, code, username) ==
    /\ signups[p].pc = "idle"
    /\ ops' = ops + 1
    /\ IF code \notin DOMAIN invites
       THEN SignupDone(p, flow, code, username, "invalid")
       ELSE IF Expired(invites[code])
       THEN SignupDone(p, flow, code, username, "expired")
       ELSE IF invites[code].remaining_uses <= 0
       THEN SignupDone(p, flow, code, username, "exhausted")
       ELSE IF \E u \in DOMAIN accounts : accounts[u].username = username
       THEN SignupDone(p, flow, code, username, "taken")
       ELSE /\ signups' = [signups EXCEPT ![p] =
                    [NoSignup EXCEPT !.pc = "valid", !.flow = flow, !.code = code,
                                     !.username = username]]
            /\ UNCHANGED last
    /\ UNCHANGED <<entries, nextId, nextGroup, pre, tx, plan, pc, conn, response,
                   accounts, catalog, invites, issued>>

(* The connection holds the row lock of the invite code. *)
HoldsLock(q, code) ==
    /\ signups[q].pc \in {"locked", "consumed", "created"}
    /\ signups[q].code = code

(* The other connections keep the lock until they commit or roll back. *)
LockIsFree(p, code) == \A q \in Conns \ {p} : ~HoldsLock(q, code)

(* The same read without FOR UPDATE: it does not wait for the lock. *)
SelectWithoutLock(p) ==
    /\ signups[p].pc = "valid"
    /\ IF signups[p].code \notin DOMAIN invites
       THEN SignupDone(p, signups[p].flow, signups[p].code, signups[p].username,
                       "unavailable")
       ELSE /\ signups' = [signups EXCEPT ![p].pc = "locked",
                                          ![p].seen = invites[signups[p].code]]
            /\ UNCHANGED last
    /\ UNCHANGED <<entries, nextId, nextGroup, pre, ops, tx, plan, pc, conn, response,
                   accounts, catalog, invites, issued>>

(* InviteCode.objects.select_for_update().get(code = code) *)
SelectForUpdate(p) ==
    /\ signups[p].pc = "valid"
    /\ LockIsFree(p, signups[p].code)
    /\ IF signups[p].code \notin DOMAIN invites
       THEN SignupDone(p, signups[p].flow, signups[p].code, signups[p].username,
                       "unavailable")
       ELSE /\ signups' = [signups EXCEPT ![p].pc = "locked",
                                          ![p].seen = invites[signups[p].code]]
            /\ UNCHANGED last
    /\ UNCHANGED <<entries, nextId, nextGroup, pre, ops, tx, plan, pc, conn, response,
                   accounts, catalog, invites, issued>>

(* The rest of _consume_invite: the checks under the lock, then the        *)
(* decrement; left is the remaining_uses the transaction writes, 0 when it *)
(* deletes the row.  An error rolls the transaction back.                  *)
ConsumeInvite(p) ==
    /\ signups[p].pc = "locked"
    /\ IF Expired(signups[p].seen)
       THEN SignupDone(p, signups[p].flow, signups[p].code, signups[p].username,
                       "expired")
       ELSE IF signups[p].seen.remaining_uses <= 0
       THEN SignupDone(p, signups[p].flow, signups[p].code, signups[p].username,
                       "exhausted")
       ELSE /\ signups' = [signups EXCEPT ![p].pc = "consumed",
                               ![p].left = signups[p].seen.remaining_uses - 1]
            /\ UNCHANGED last
    /\ UNCHANGED <<entries, nextId, nextGroup, pre, ops, tx, plan, pc, conn, response,
                   accounts, catalog, invites, issued>>

(* The key of the row an INSERT into auth_user creates; no account is *)
(* deleted while signups are served.                                   *)
NextUserId == Cardinality(DOMAIN accounts) + 1

(* super().save() / User.objects.create_user(): the INSERT waits for a     *)
(* transaction that has inserted the same username and fails on a          *)
(* committed one.                                                          *)
CreateUser(p) ==
    /\ signups[p].pc = "consumed"
    /\ \A q \in Conns \ {p} :
          ~(signups[q].pc = "created" /\ signups[q].username = signups[p].username)
    /\ IF \E u \in DOMAIN accounts : accounts[u].username = signups[p].username
       THEN SignupDone(p, signups[p].flow, signups[p].code, signups[p].username,
                       "integrity_error")
       ELSE /\ signups' = [signups EXCEPT ![p].pc = "created"]
            /\ UNCHANGED last
    /\ UNCHANGED <<entries, nextId, nextGroup, pre, ops, tx, plan, pc, conn, response,
                   accounts, catalog, invites, issued>>

(* _assign_teacher_group, then the atomic block commits: the invite's new  *)
(* remaining_uses or its deletion and the new user become visible at once. *)
SignupCommit(p) ==
    /\ signups[p].pc = "created"
    /\ invites' =
          IF signups[p].left <= 0
          THEN [c \in DOMAIN invites \ {signups[p].code} |-> invites[c]]
          ELSE IF signups[p].code \in DOMAIN invites
          THEN [invites EXCEPT ![signups[p].code].remaining_uses = signups[p].left]
          ELSE invites
    /\ accounts' =
          [u \in DOMAIN accounts \cup {NextUserId} |->
              IF u \in DOMAIN accounts
              THEN accounts[u]
              ELSE Account(signups[p].username, FALSE,
                           {"teacher"} \cap SeededGroups, signups[p].code)]
    /\ SignupDone(p, signups[p].flow, signups[p].code, signups[p].username, "ok")
    /\ UNCHANGED <<entries, nextId, nextGroup, pre, ops, tx, plan, pc, conn, response,
                   catalog, issued>>

(* timezone.now() passes the expiration_date of an invite, also for the *)
(* connection that has read the row.                                     *)
InviteExpires(code) ==
    /\ code \in DOMAIN invites
    /\ invites[code].expiration = "future"
    /\ invites' = [invites EXCEPT ![code].expiration = "past"]
    /\ signups' =
          [p \in Conns |->
              IF HoldsLock(p, code)
              THEN [signups[p] EXCEPT !.seen.expiration = "past"]
              ELSE signups[p]]
    /\ UNCHANGED <<entries, nextId, nextGroup, pre, last, ops, tx, plan, pc, conn,
                   response, accounts, catalog, issued>>

NextSignups ==
    \/ ops < MaxSignups /\ \E p \in Conns, flow \in Flows, code \in Codes,
                              username \in SignupNames :
            SignupValidate(p, flow, code, username)
    \/ \E p \in Conns : SelectForUpdate(p)
    \/ \E p \in Conns : ConsumeInvite(p)
    \/ \E p \in Conns : CreateUser(p)
    \/ \E p \in Conns : SignupCommit(p)
    \/ \E code \in Codes : InviteExpires(code)

SpecSignups == InitSignups /\ [][NextSignups]_vars

(* The accounts that signed up with the code. *)
Via(code) == {u \in DOMAIN accounts : accounts[u].invite = code}

(* The uses the code has left; none when its row is gone. *)
UsesIn(table, code) ==
    IF code \in DOMAIN table THEN table[code].remaining_uses ELSE 0

RemainingUses(code) == UsesIn(invites, code)

(* C22: In every interleaving of signups (password or SSO) an invite code   *)
(* issued with k uses admits at most k successful signups: in every         *)
(* committed state the accounts created with the code and the uses it has   *)
(* left add up to k, no invite row with zero uses is left behind, the       *)
(* accounts change only by a successful signup that adds one account and    *)
(* takes one use of its code in the same step, and a signup that ends with  *)
(* an error (invite missing, expired or exhausted when it is consumed)      *)
(* creates no user.                                                         *)
C22_InviteUses ==
    /\ [](\A c \in DOMAIN issued :
             /\ Cardinality(Via(c)) + RemainingUses(c) = issued[c]
             /\ Cardinality(Via(c)) <= issued[c])
    /\ [](\A c \in DOMAIN invites : invites[c].remaining_uses > 0)
    /\ [][accounts' # accounts =>
             /\ last'.kind = "signup" /\ last'.result = "ok"
             /\ Cardinality(DOMAIN accounts') = Cardinality(DOMAIN accounts) + 1
             /\ \A u \in DOMAIN accounts : accounts'[u] = accounts[u]
             /\ UsesIn(invites', last'.id) = UsesIn(invites, last'.id) - 1]_vars
    /\ [][(last' # last /\ last'.result # "ok") => accounts' = accounts]_vars

(* Both uses of a code were taken by two signups, and a third signup that *)
(* had passed validation found the row gone when it asked for the lock.   *)
C22_Witness ==
    /\ last.kind = "signup"
    /\ last.result = "unavailable"
    /\ last.id \in DOMAIN issued
    /\ issued[last.id] = 2
    /\ Cardinality(Via(last.id)) = 2
    /\ \E u, v \in Via(last.id) :
          accounts[u].username # accounts[v].username

(* ------------------ members and referential protection ----------------- *)

(* models.py: ScheduleEntry.teacher is on_delete = CASCADE; its classroom, *)
(* subject, course, group and created_by, the created_by of the four       *)
(* catalog tables and InviteCode.creator are on_delete = PROTECT.  The     *)
(* rows of this part carry the four catalog keys as fields of their own.   *)

MaxItems == 2
MaxMemberOps == 2
MaxReferencing == 2

Items == 1..MaxItems

(* Two admins and a teacher. *)
Members == 1..(NumUsers + 1)

MemberAccounts ==
    [u \in Members |->
        Account(u, FALSE, IF u <= NumUsers THEN {"admin"} ELSE {"teacher"}, NULL)]

Entry(teacher, created_by, classroom, subject, course, group) ==
    [teacher |-> teacher, date |-> 0, start_time |-> 0, end_time |-> 1,
     created_by |-> created_by, recurrence_group |-> NULL,
     recurrence_interval_days |-> NULL, recurrence_total_occurrences |-> NULL,
     recurrence_index |-> NULL, private_note |-> <<>>,
     classroom |-> classroom, subject |-> subject, course |-> course,
     group |-> group]

(* Occurrences taught by the second admin or by the teacher and created by *)
(* one of the admins; at most one of the four keys is not the first row of  *)
(* its table.                                                               *)
ReferencingRows ==
    {r \in {Entry(t, a, c, s, k, g) :
                t \in Members \ {1}, a \in 1..NumUsers,
                c \in Items, s \in Items, k \in Items, g \in Items} :
        r.classroom + r.subject + r.course + r.group <= 5}

ReferencingStores ==
    UNION {[1..n -> ReferencingRows] : n \in 0..MaxReferencing}

(* Every table holds the rows of Items; the first admin created them, but *)
(* for the last row of each table, which either admin created.             *)
Catalogs ==
    {[t \in Tables |->
         [i \in Items |-> [created_by |-> IF i = MaxItems THEN a ELSE 1]]] :
     a \in 1..NumUsers}

InitProtect ==
    /\ accounts = MemberAccounts
    /\ catalog \in Catalogs
    /\ invites \in {NoRows, [c \in {1} |-> Invite(1, "none", NumUsers)]}
    /\ issued = [c \in DOMAIN invites |-> invites[c].remaining_uses]
    /\ signups = [p \in Conns |-> NoSignup]
    /\ entries \in ReferencingStores
    /\ nextId = Cardinality(DOMAIN entries) + 1
    /\ nextGroup = 1
    /\ pre = entries
    /\ last = Outcome("none", NULL, NULL, "single", NoReq, "none", 0)
    /\ ops = 0
    /\ tx = [rows |-> NoRows, seq |-> 1]
    /\ plan = <<>>
    /\ pc = "idle"
    /\ conn = [p \in Conns |-> NoConn]
    /\ response = NoResponse

(* The occurrences whose foreign key of the table points at the row. *)
ReferencesTo(table, id) == {i \in DOMAIN entries : entries[i][table] = id}

(* Collector.collect() meets a PROTECT relation with rows in it. *)
ProtectedItem(table, id) == ReferencesTo(table, id) # {}

(* The answer of a members or catalog request that wrote nothing. *)
Reject(kind, user, id, table, result) ==
    /\ last' = Outcome(kind, user, id, table, NoReq, result, 0)
    /\ UNCHANGED <<entries, accounts, catalog>>

(* delete_classroom, delete_subject, delete_course and delete_group *)
DeleteItem(user, table, id) ==
    /\ pc = "idle"
    /\ ops' = ops + 1
    /\ pre' = entries
    /\ IF ~IsAdmin(user)
       THEN Reject("delete_item", user, id, table, "forbidden")
       ELSE IF id \notin DOMAIN catalog[table]
       THEN Reject("delete_item", user, id, table, "not_found")
       ELSE IF ProtectedItem(table, id)
       THEN Reject("delete_item", user, id, table, "protected")
       ELSE /\ catalog' =
                  [catalog EXCEPT ![table] =
                      [i \in DOMAIN catalog[table] \ {id} |-> catalog[table][i]]]
            /\ last' = Outcome("delete_item", user, id, table, NoReq, "ok", 1)
            /\ UNCHANGED <<entries, accounts>>
    /\ UNCHANGED <<nextId, nextGroup, tx, plan, pc, conn, response, invites, signups,
                   issued>>

DeleteClassroom(user, id) == DeleteItem(user, "classroom", id)

DeleteSubject(user, id) == DeleteItem(user, "subject", id)

DeleteCourse(user, id) == DeleteItem(user, "course", id)

DeleteGroup(user, id) == DeleteItem(user, "group", id)

(* No PROTECT relation stops the delete of any user. *)
ProtectsNoUser(target) == FALSE

(* A PROTECT relation to the user has rows: an occurrence, a catalog row *)
(* or an invite code the user created.                                   *)
ProtectedUser(target) ==
    \/ \E i \in DOMAIN entries : entries[i].created_by = target
    \/ \E t \in Tables : \E i \in DOMAIN catalog[t] : catalog[t][i].created_by = target
    \/ \E c \in DOMAIN invites : invites[c].creator = target

(* The occurrences the delete of the user takes along (teacher, CASCADE). *)
TaughtBy(target) == {i \in DOMAIN entries : entries[i].teacher = target}

(* remove_user *)
RemoveUser(user, target) ==
    /\ pc = "idle"
    /\ ops' = ops + 1
    /\ pre' = entries
    /\ IF ~IsAdmin(user)
       THEN Reject("remove_user", user, target, "single", "forbidden")
       ELSE IF target \notin DOMAIN accounts
       THEN Reject("remove_user", user, target, "single", "not_found")
       ELSE IF accounts[target].is_superuser
       THEN Reject("remove_user", user, target, "single", "superuser")
       ELSE IF target = user
       THEN Reject("remove_user", user, target, "single", "self")
       ELSE IF ProtectedUser(target)
       THEN Reject("remove_user", user, target, "single", "protected")
       ELSE /\ accounts' = [u \in DOMAIN accounts \ {target} |-> accounts[u]]
            /\ entries' = Remove(entries, TaughtBy(target))
            /\ last' = Outcome("remove_user", user, target, "single", NoReq, "ok",
                               Cardinality(TaughtBy(target)))
            /\ UNCHANGED catalog
    /\ UNCHANGED <<nextId, nextGroup, tx, plan, pc, conn, response, invites, signups,
                   issued>>

(* A key past the rows of a table, and one past the accounts. *)
ItemIds == 1..(MaxItems + 1)

MemberIds == 1..(NumUsers + 2)

NextProtect ==
    \/ ops < MaxMemberOps /\ \E user \in {1, NumUsers + 1}, id \in ItemIds :
            DeleteClassroom(user, id)
    \/ ops < MaxMemberOps /\ \E user \in {1, NumUsers + 1}, id \in ItemIds :
            DeleteSubject(user, id)
    \/ ops < MaxMemberOps /\ \E user \in {1, NumUsers + 1}, id \in ItemIds :
            DeleteCourse(user, id)
    \/ ops < MaxMemberOps /\ \E user \in {1, NumUsers + 1}, id \in ItemIds :
            DeleteGroup(user, id)
    \/ ops < MaxMemberOps /\ \E user \in {1, NumUsers + 1}, target \in MemberIds :
            RemoveUser(user, target)

SpecProtect == InitProtect /\ [][NextProtect]_vars

(* user.groups.clear(); user.groups.add(group) *)
WithGroup(table, target, group) == [table EXCEPT ![target].groups = {group}]

(* promote_user *)
PromoteUser(user, target) ==
    /\ pc = "idle"
    /\ ops' = ops + 1
    /\ pre' = entries
    /\ IF ~IsAdmin(user)
       THEN Reject("promote_user", user, target, "single", "forbidden")
       ELSE IF target \notin DOMAIN accounts
       THEN Reject("promote_user", user, target, "single", "not_found")
       ELSE IF accounts[target].is_superuser
       THEN Reject("promote_user", user, target, "single", "superuser")
       ELSE IF "admin" \notin SeededGroups
       THEN Reject("promote_user", user, target, "single", "no_group")
       ELSE /\ accounts' = WithGroup(accounts, target, "admin")
            /\ last' = Outcome("promote_user", user, target, "single", NoReq, "ok", 1)
            /\ UNCHANGED <<entries, catalog>>
    /\ UNCHANGED <<nextId, nextGroup, tx, plan, pc, conn, response, invites, signups,
                   issued>>

(* demote_user without the check that the target is the requester *)
DemoteUserAnyone(user, target) ==
    /\ pc = "idle"
    /\ ops' = ops + 1
    /\ pre' = entries
    /\ IF ~IsAdmin(user)
       THEN Reject("demote_user", user, target, "single", "forbidden")
       ELSE IF target \notin DOMAIN accounts
       THEN Reject("demote_user", user, target, "single", "not_found")
       ELSE IF accounts[target].is_superuser
       THEN Reject("demote_user", user, target, "single", "superuser")
       ELSE IF "teacher" \notin SeededGroups
       THEN Reject("demote_user", user, target, "single", "no_group")
       ELSE /\ accounts' = WithGroup(accounts, target, "teacher")
            /\ last' = Outcome("demote_user", user, target, "single", NoReq, "ok", 1)
            /\ UNCHANGED <<entries, catalog>>
    /\ UNCHANGED <<nextId, nextGroup, tx, plan, pc, conn, response, invites, signups,
                   issued>>

(* demote_user *)
DemoteUser(user, target) ==
    /\ pc = "idle"
    /\ ops' = ops + 1
    /\ pre' = entries
    /\ IF ~IsAdmin(user)
       THEN Reject("demote_user", user, target, "single", "forbidden")
       ELSE IF target \notin DOMAIN accounts
       THEN Reject("demote_user", user, target, "single", "not_found")
       ELSE IF accounts[target].is_superuser
       THEN Reject("demote_user", user, target, "single", "superuser")
       ELSE IF target = user
       THEN Reject("demote_user", user, target, "single", "self")
       ELSE IF "teacher" \notin SeededGroups
       THEN Reject("demote_user", user, target, "single", "no_group")
       ELSE /\ accounts' = WithGroup(accounts, target, "teacher")
            /\ last' = Outcome("demote_user", user, target, "single", NoReq, "ok", 1)
            /\ UNCHANGED <<entries, catalog>>
    /\ UNCHANGED <<nextId, nextGroup, tx, plan, pc, conn, response, invites, signups,
                   issued>>

(* Every account is a superuser or not and in any of the two groups, both *)
(* or none.                                                                *)
MemberTables ==
    [Members -> {Account(0, su, groups, NULL) :
                    su \in BOOLEAN, groups \in SUBSET SeededGroups}]

(* No occurrence, or one the last member teaches and the first created. *)
InitMembers ==
    /\ accounts \in MemberTables
    /\ catalog = [t \in Tables |-> NoRows]
    /\ invites = NoRows
    /\ issued = NoRows
    /\ signups = [p \in Conns |-> NoSignup]
    /\ entries \in {NoRows, [i \in {1} |-> Entry(NumUsers + 1, 1, 1, 1, 1, 1)]}
    /\ nextId = Cardinality(DOMAIN entries) + 1
    /\ nextGroup = 1
    /\ pre = entries
    /\ last = Outcome("none", NULL, NULL, "single", NoReq, "none", 0)
    /\ ops = 0
    /\ tx = [rows |-> NoRows, seq |-> 1]
    /\ plan = <<>>
    /\ pc = "idle"
    /\ conn = [p \in Conns |-> NoConn]
    /\ response = NoResponse

(* login_required: the requester has an account. *)
NextMembers ==
    \/ ops < MaxMemberOps /\ \E user \in DOMAIN accounts, target \in MemberIds :
            PromoteUser(user, target)
    \/ ops < MaxMemberOps /\ \E user \in DOMAIN accounts, target \in MemberIds :
            DemoteUser(user, target)
    \/ ops < MaxMemberOps /\ \E user \in DOMAIN accounts, target \in MemberIds :
            RemoveUser(user, target)

SpecMembers == InitMembers /\ [][NextMembers]_vars

(* The request the step has answered. *)
Answered(kind) == ops' = ops + 1 /\ last'.kind = kind

RejectedUnchanged ==
    /\ last'.result # "ok"
    /\ entries' = entries
    /\ catalog' = catalog
    /\ accounts' = accounts

(* Nothing but occurrences the user teaches refers to the user. *)
OnlyTeacher(target) ==
    /\ \A i \in DOMAIN entries : entries[i].created_by # target
    /\ \A t \in Tables : \A i \in DOMAIN catalog[t] : catalog[t][i].created_by # target
    /\ \A c \in DOMAIN invites : invites[c].creator # target

(* C21: A request to delete a classroom, subject, course or group that at  *)
(* least one occurrence references, or a user who is the creator of some   *)
(* occurrence, is rejected and leaves that row and every occurrence as     *)
(* they were.  An admin's request to remove another, non-superuser user    *)
(* whom nothing but occurrences taught refers to succeeds and removes      *)
(* exactly the occurrences that user taught together with the user.        *)
C21_Protection ==
    /\ [][(/\ Answered("delete_item")
           /\ last'.id \in DOMAIN catalog[last'.scope]
           /\ \E i \in DOMAIN entries : entries[i][last'.scope] = last'.id)
          => RejectedUnchanged]_vars
    /\ [][(/\ Answered("remove_user")
           /\ last'.id \in DOMAIN accounts
           /\ \E i \in DOMAIN entries : entries[i].created_by = last'.id)
          => RejectedUnchanged]_vars
    /\ [][(/\ Answered("remove_user")
           /\ IsAdmin(last'.user)
           /\ last'.id \in DOMAIN accounts
           /\ last'.id # last'.user
           /\ ~accounts[last'.id].is_superuser
           /\ OnlyTeacher(last'.id))
          => /\ last'.result = "ok"
             /\ DOMAIN accounts' = DOMAIN accounts \ {last'.id}
             /\ \A u \in DOMAIN accounts' : accounts'[u] = accounts[u]
             /\ DOMAIN entries' = {i \in DOMAIN entries : entries[i].teacher # last'.id}
             /\ \A i \in DOMAIN entries' : entries'[i] = entries[i]
             /\ catalog' = catalog]_vars

(* The teacher was removed with the one occurrence the teacher taught; the *)
(* occurrence of the other teacher is still stored.                        *)
C21_Witness ==
    /\ last.kind = "remove_user"
    /\ last.result = "ok"
    /\ last.count = 1
    /\ last.id \notin DOMAIN accounts
    /\ Cardinality(DOMAIN pre) = 2
    /\ Cardinality(DOMAIN entries) = 1
    /\ \A i \in DOMAIN entries : entries[i].teacher # last.id

(* is_superuser or member of the admin group, in a table of accounts *)
AdminCapable(table) ==
    {u \in DOMAIN table : table[u].is_superuser \/ "admin" \in table[u].groups}

MembersRequest ==
    /\ ops' = ops + 1
    /\ last'.kind \in {"promote_user", "demote_user", "remove_user"}

(* C30: In every sequence of promote_user, demote_user and remove_user     *)
(* requests no superuser account is modified or removed, a request to      *)
(* demote or remove the requester changes nothing, a request from a user   *)
(* who is neither superuser nor admin changes nothing, after a promotion   *)
(* or demotion the target is in exactly one role group (admin after a      *)
(* promotion, teacher after a demotion), and the set of superusers and     *)
(* admins does not become empty.                                           *)
C30_MembersSafe ==
    /\ [][MembersRequest =>
             \A u \in DOMAIN accounts :
                 accounts[u].is_superuser =>
                     u \in DOMAIN accounts' /\ accounts'[u] = accounts[u]]_vars
    /\ [][(/\ MembersRequest
           /\ last'.kind \in {"demote_user", "remove_user"}
           /\ last'.id = last'.user)
          => /\ last'.result # "ok"
             /\ accounts' = accounts
             /\ entries' = entries]_vars
    /\ [][(MembersRequest /\ last'.user \notin AdminCapable(accounts))
          => /\ last'.result = "forbidden"
             /\ accounts' = accounts
             /\ entries' = entries]_vars
    /\ [][(/\ MembersRequest
           /\ last'.kind \in {"promote_user", "demote_user"}
           /\ last'.result = "ok")
          => /\ last'.id \in DOMAIN accounts'
             /\ Cardinality(accounts'[last'.id].groups \cap {"admin", "teacher"}) = 1
             /\ accounts'[last'.id].groups =
                    IF last'.kind = "promote_user" THEN {"admin"} ELSE {"teacher"}
             /\ \A u \in DOMAIN accounts \ {last'.id} :
                    u \in DOMAIN accounts' /\ accounts'[u] = accounts[u]]_vars
    /\ [][(MembersRequest /\ AdminCapable(accounts) # {})
          => AdminCapable(accounts') # {}]_vars

(* An admin demoted the other admin and is the only admin left. *)
C30_Witness ==
    /\ last.kind = "demote_user"
    /\ last.result = "ok"
    /\ last.id \in DOMAIN accounts
    /\ accounts[last.id].groups = {"teacher"}
    /\ ~accounts[last.id].is_superuser
    /\ AdminCapable(accounts) = {last.user}
    /\ accounts[last.user].groups = {"admin", "teacher"}

====
